---- MODULE Spec2Model ----
(***************************************************************************)
(* Scheduling engine of quick-draw (client/src/lib): the SM-2 scheduler    *)
(* scheduleNextReview with its helpers from srsMath.js and dateUtils.js.   *)
(*                                                                         *)
(* Number representation.  Ease factors and the fractional deck options    *)
(* (easyBonus, hardIntervalFactor, intervalModifier) are fixed-point       *)
(* hundredths: 250 stands for 2.5.  Arithmetic is exact decimal            *)
(* arithmetic; the binary rounding of IEEE doubles is not modelled.        *)
(* Instants are whole minutes since the epoch (UTC); a Date and its ISO    *)
(* text denote the same instant.  Math.random() is a draw k / RandDen      *)
(* with k in 0 .. RandDen-1.                                               *)
(***************************************************************************)
EXTENDS Integers, Sequences, FiniteSets, TLC

(***************************************************************************)
(* Bounds of the model.                                                    *)
(***************************************************************************)
\* number of scheduleNextReview calls applied to a lazily created record
MaxCalls == 5
\* latest instant (minutes since the epoch) at which a call may start
MaxClock == 2160

\* gradings stored, and clock advances made, in the specification of the store
StoreGrades == 2

StoreAdvances == 2

\* gradings attempted in the specification of the failing storage
FailingGrades == 1

\* largest ease factor (hundredths) and largest whole interval (days) handed
\* to the helpers of srsMath.js
MaxEaseInput == 400

MaxFuzzDays == 45

\* lazy-create calls started in the specification of interleaved calls
MaxLazyCreateCalls == 3

\* longest learning-steps text of the enumerated inputs of parseLearningSteps
MaxStepsLen == 4

(***************************************************************************)
(* Program constants.                                                      *)
(***************************************************************************)
RATING_AGAIN == 1
RATING_HARD == 2
RATING_GOOD == 3
RATING_EASY == 4

CARD_STATE_NEW == "new"
CARD_STATE_LEARNING == "learning"
CARD_STATE_REVIEW == "review"

\* LEARNING_INTERVALS, minutes
LEARNING_INTERVALS_AGAIN == 2
LEARNING_INTERVALS_HARD == 10

LEARNING_INTERVALS_GOOD == 1440

LEARNING_INTERVALS_EASY == 4 * 1440

\* minutes of a calendar day (no daylight-saving change is modelled)
MinutesPerDay == 1440

\* Math.max(1.3, ...) in hundredths
MinEaseFactor == 130

\* denominator of the modelled Math.random() draw
RandDen == 100

(***************************************************************************)
(* JavaScript helpers.                                                     *)
(***************************************************************************)
\* Math.round(num / den) for den > 0: nearest integer, halves towards +oo
MathRound(num, den) ==
  IF 2 * (num % den) >= den THEN (num \div den) + 1 ELSE num \div den

MathMax(a, b) == IF a >= b THEN a ELSE b

MathMin(a, b) == IF a <= b THEN a ELSE b

\* destructuring default: the field's value, or dflt when the field is absent
FieldOr(obj, field, dflt) == IF field \in DOMAIN obj THEN obj[field] ELSE dflt

(***************************************************************************)
(* srsMath.js                                                              *)
(***************************************************************************)
\* applyFuzz takes and returns a number of days that need not be whole:
\* intervalDays and the value returned are in hundredths of a day.

\* variant: the long band has a range of a quarter of the interval
fuzzRange_quarterFromThirty(intervalDays) ==
  IF intervalDays < 700 THEN MathMin(10000, intervalDays * 15)
  ELSE IF intervalDays < 3000 THEN intervalDays * 5
  ELSE intervalDays * 25

\* variant: the medium band has the range of the long one
fuzzRange_tenPercentFromSeven(intervalDays) ==
  IF intervalDays < 700 THEN MathMin(10000, intervalDays * 15)
  ELSE intervalDays * 10

\* fuzzRange for intervalDays in hundredths of a day, in ten-thousandths
fuzzRange(intervalDays) ==
  IF intervalDays < 700 THEN MathMin(10000, intervalDays * 15)
  ELSE IF intervalDays < 3000 THEN intervalDays * 5
  ELSE intervalDays * 10

\* rand is the numerator k of the Math.random() draw k / RandDen
applyFuzz(intervalDays, disabled, rand) ==
  IF disabled \/ intervalDays < 200
  THEN (IF intervalDays < 200 THEN intervalDays
        ELSE 100 * MathRound(intervalDays, 100))
  ELSE 100 * MathMax(1, MathRound(intervalDays * 100 * RandDen
                                    + (2 * rand - RandDen) * fuzzRange(intervalDays),
                                  10000 * RandDen))

\* variant: GOOD mapped to the canonical SM-2 grade 4
ratingToQuality_goodIsFour(rating) ==
  CASE rating = RATING_AGAIN -> 0
    [] rating = RATING_HARD -> 2
    [] rating = RATING_GOOD -> 4
    [] rating = RATING_EASY -> 5
    [] OTHER -> 3

\* variant: HARD mapped to grade 4
ratingToQuality_hardIsFour(rating) ==
  CASE rating = RATING_AGAIN -> 0
    [] rating = RATING_HARD -> 4
    [] rating = RATING_GOOD -> 3
    [] rating = RATING_EASY -> 5
    [] OTHER -> 3

ratingToQuality(rating) ==
  CASE rating = RATING_AGAIN -> 0
    [] rating = RATING_HARD -> 2
    [] rating = RATING_GOOD -> 3
    [] rating = RATING_EASY -> 5
    [] OTHER -> 3

\* delta in hundredths: 0.1 - (5 - q) * (0.08 + (5 - q) * 0.02)
easeDelta(q) == 10 - (5 - q) * (8 + (5 - q) * 2)

\* variant: the sum is returned without Math.max(1.3, ...)
calculateNewEaseFactor_noFloor(easeFactor, rating) ==
  easeFactor + easeDelta(ratingToQuality(rating))

calculateNewEaseFactor(easeFactor, rating) ==
  MathMax(MinEaseFactor, easeFactor + easeDelta(ratingToQuality(rating)))

(***************************************************************************)
(* learningSteps.js.  A string is a sequence of one-character strings; a   *)
(* parsed number is held in thousandths, so inputs carry at most three     *)
(* fraction digits, and exponent notation is left out of the alphabet.     *)
(***************************************************************************)
Digits == {"0", "1", "2", "3", "4", "5", "6", "7", "8", "9"}

DigitValue(c) ==
  CASE c = "0" -> 0 [] c = "1" -> 1 [] c = "2" -> 2 [] c = "3" -> 3
    [] c = "4" -> 4 [] c = "5" -> 5 [] c = "6" -> 6 [] c = "7" -> 7
    [] c = "8" -> 8 [] c = "9" -> 9

\* String.prototype.toLowerCase on the letters of the alphabet
toLowerCase(str) ==
  [i \in 1..Len(str) |->
     CASE str[i] = "D" -> "d" [] str[i] = "H" -> "h" [] str[i] = "M" -> "m"
       [] OTHER -> str[i]]

\* String.prototype.trim
RECURSIVE trim(_)
trim(str) ==
  IF str = <<>> THEN str
  ELSE IF Head(str) = " " THEN trim(Tail(str))
  ELSE IF str[Len(str)] = " " THEN trim(SubSeq(str, 1, Len(str) - 1))
  ELSE str

\* String.prototype.split(',')
RECURSIVE split(_)
split(str) ==
  IF \A i \in 1..Len(str) : str[i] # ","
  THEN <<str>>
  ELSE LET i == CHOOSE j \in 1..Len(str) :
                  str[j] = "," /\ \A k \in 1..(j - 1) : str[k] # ","
       IN  <<SubSeq(str, 1, i - 1)>> \o split(SubSeq(str, i + 1, Len(str)))

String_endsWith(str, c) == str # <<>> /\ str[Len(str)] = c

\* number of digits of str from position from on
digitRun(str, from) ==
  LET ends == {n \in 0..(Len(str) - from + 1) :
                 \A i \in from..(from + n - 1) : str[i] \in Digits}
  IN  CHOOSE n \in ends : \A m \in ends : m <= n

\* value of a digit string
RECURSIVE digitsValue(_)
digitsValue(ds) ==
  IF ds = <<>> THEN 0
  ELSE 10 * digitsValue(SubSeq(ds, 1, Len(ds) - 1)) + DigitValue(ds[Len(ds)])

\* parseFloat: <<>> for NaN, else <<v>> with v the value in thousandths; the
\* longest prefix sign digits [. digits] is read, what follows is ignored
parseFloat(str) ==
  LET signed == str # <<>> /\ str[1] \in {"+", "-"}
      start == IF signed THEN 2 ELSE 1
      nInt == digitRun(str, start)
      dot == start + nInt
      hasDot == dot <= Len(str) /\ str[dot] = "."
      nFrac == IF hasDot THEN digitRun(str, dot + 1) ELSE 0
      intPart == digitsValue(SubSeq(str, start, start + nInt - 1))
      fracDigits == SubSeq(str, dot + 1, dot + MathMin(nFrac, 3))
      fracPart == digitsValue(fracDigits)
                    * (CASE Len(fracDigits) = 0 -> 0 [] Len(fracDigits) = 1 -> 100
                         [] Len(fracDigits) = 2 -> 10 [] OTHER -> 1)
      magnitude == intPart * 1000 + fracPart
  IN  IF nInt = 0 /\ nFrac = 0 THEN <<>>
      ELSE IF signed /\ str[1] = "-" THEN <<0 - magnitude>>
      ELSE <<magnitude>>

\* one token of the steps string: <<>> for null, else <<minutes>> in thousandths
parseStep(token) ==
  LET step == toLowerCase(trim(token))
      value == parseFloat(step)
  IN  IF value = <<>> \/ value[1] <= 0 THEN <<>>
      ELSE IF String_endsWith(step, "d") THEN <<value[1] * 24 * 60>>
      ELSE IF String_endsWith(step, "h") THEN <<value[1] * 60>>
      ELSE value

\* the non-null entries of a sequence of parsed tokens
RECURSIVE filterNotNull(_)
filterNotNull(parsed) ==
  IF parsed = <<>> THEN <<>>
  ELSE parsed[1] \o filterNotNull(Tail(parsed))

\* variant: no fallback when every step was invalid
parseLearningSteps_noFallback(stepsStr) ==
  IF stepsStr = <<>> THEN <<10000, 1440000>>
  ELSE LET tokens == split(stepsStr)
       IN  filterNotNull([i \in 1..Len(tokens) |-> parseStep(tokens[i])])

\* step durations in thousandths of a minute
parseLearningSteps(stepsStr) ==
  IF stepsStr = <<>> THEN <<10000, 1440000>>
  ELSE LET tokens == split(stepsStr)
           steps == filterNotNull([i \in 1..Len(tokens) |-> parseStep(tokens[i])])
       IN  IF Len(steps) > 0 THEN steps ELSE <<10000, 1440000>>

\* the text '10m,1d'
DefaultLearningSteps == <<"1", "0", "m", ",", "1", "d">>

(***************************************************************************)
(* dateUtils.js                                                            *)
(***************************************************************************)
\* date is <<>> (undefined, the default parameter reads the clock) or <<t>>
toUTC(date, clockRead) == IF date = <<>> THEN clockRead ELSE date[1]

\* variant: the local midnight that began the target day's eve
computeLocalMidnight_dayBefore(daysFromToday, clockRead, tzOffset) ==
  (((clockRead + tzOffset) \div MinutesPerDay) + daysFromToday - 1) * MinutesPerDay
    - tzOffset

\* clockRead is the instant computeLocalMidnight's own new Date() returns,
\* tzOffset the local zone's offset from UTC in minutes
computeLocalMidnight(daysFromToday, clockRead, tzOffset) ==
  (((clockRead + tzOffset) \div MinutesPerDay) + daysFromToday) * MinutesPerDay
    - tzOffset

(***************************************************************************)
(* srsService.js: scheduleNextReview                                       *)
(***************************************************************************)
\* deck options after the destructuring defaults; deckOptions || {} makes a
\* null deckOptions the empty object, modelled as the empty record <<>>
resolveDeckOptions(deckOptions) ==
  [easyBonus            |-> FieldOr(deckOptions, "easyBonus", 130),
   hardIntervalFactor   |-> FieldOr(deckOptions, "hardIntervalFactor", 120),
   lapseIntervalPercent |-> FieldOr(deckOptions, "lapseIntervalPercent", 10),
   intervalModifier     |-> FieldOr(deckOptions, "intervalModifier", 100),
   maxIntervalDays      |-> FieldOr(deckOptions, "maxIntervalDays", 36500),
   learningSteps        |-> FieldOr(deckOptions, "learningSteps",
                                    DefaultLearningSteps)]

\* progress fields after the destructuring defaults
resolveProgress(progress) ==
  [state               |-> FieldOr(progress, "state", CARD_STATE_NEW),
   ease_factor         |-> FieldOr(progress, "ease_factor", 250),
   interval_days       |-> FieldOr(progress, "interval_days", 0),
   repetitions         |-> FieldOr(progress, "repetitions", 0),
   lapses              |-> FieldOr(progress, "lapses", 0),
   learning_step_index |-> FieldOr(progress, "learning_step_index", 0)]

\* variant: HARD scales the base of the repetitions rule
reviewBaseInterval_hardOnRuleBase(p, rating, o, newEaseFactor) ==
  LET byRepetitions == IF p.repetitions = 0 THEN 100
                       ELSE IF p.repetitions = 1 THEN 600
                       ELSE p.interval_days * newEaseFactor
      byRating == IF rating = RATING_HARD
                    THEN byRepetitions * o.hardIntervalFactor
                  ELSE IF rating = RATING_EASY
                    THEN byRepetitions * o.easyBonus
                  ELSE byRepetitions * 100
  IN  byRating * o.intervalModifier

\* variant: the repetitions test reads the incremented count
reviewBaseInterval_postIncrement(p, rating, o, newEaseFactor) ==
  LET byRepetitions == IF p.repetitions + 1 = 0 THEN 100
                       ELSE IF p.repetitions + 1 = 1 THEN 600
                       ELSE p.interval_days * newEaseFactor
      byRating == IF rating = RATING_HARD
                    THEN p.interval_days * o.hardIntervalFactor * 100
                  ELSE IF rating = RATING_EASY
                    THEN byRepetitions * o.easyBonus
                  ELSE byRepetitions * 100
  IN  byRating * o.intervalModifier

\* baseInterval of a successful review after all modifiers, in millionths of
\* a day (hundredths ease x hundredths bonus x hundredths modifier)
reviewBaseInterval(p, rating, o, newEaseFactor) ==
  LET byRepetitions == IF p.repetitions = 0 THEN 100
                       ELSE IF p.repetitions = 1 THEN 600
                       ELSE p.interval_days * newEaseFactor
      byRating == IF rating = RATING_HARD
                    THEN p.interval_days * o.hardIntervalFactor * 100
                  ELSE IF rating = RATING_EASY
                    THEN byRepetitions * o.easyBonus
                  ELSE byRepetitions * 100
  IN  byRating * o.intervalModifier

\* Math.round(baseInterval), the argument handed to applyFuzz
roundedBaseInterval(p, rating, o, newEaseFactor) ==
  MathRound(reviewBaseInterval(p, rating, o, newEaseFactor), 1000000)

\* In the operators below now is the instant read at the top of the call
\* and clockRead the instant a later new Date() of the same call returns
\* (computeLocalMidnight's, or the default parameter of toUTC).

\* variant: every learning-phase step goes back to the first step
learningStep_restarts(p, stepIndex, minutes, now, clockRead) ==
  [state               |-> CARD_STATE_LEARNING,
   ease_factor         |-> p.ease_factor,
   interval_days       |-> p.interval_days,
   repetitions         |-> p.repetitions,
   lapses              |-> p.lapses,
   learning_step_index |-> 0,
   due_at              |-> toUTC(<<now + minutes>>, clockRead),
   last_reviewed_at    |-> toUTC(<<now>>, clockRead)]

\* variant: the offset is added to a fresh clock reading, not to now
learningStep_fromClockRead(p, stepIndex, minutes, now, clockRead) ==
  [state               |-> CARD_STATE_LEARNING,
   ease_factor         |-> p.ease_factor,
   interval_days       |-> p.interval_days,
   repetitions         |-> p.repetitions,
   lapses              |-> p.lapses,
   learning_step_index |-> stepIndex,
   due_at              |-> toUTC(<<clockRead + minutes>>, clockRead),
   last_reviewed_at    |-> toUTC(<<now>>, clockRead)]

\* AGAIN and HARD in the learning phase
learningStep(p, stepIndex, minutes, now, clockRead) ==
  [state               |-> CARD_STATE_LEARNING,
   ease_factor         |-> p.ease_factor,
   interval_days       |-> p.interval_days,
   repetitions         |-> p.repetitions,
   lapses              |-> p.lapses,
   learning_step_index |-> stepIndex,
   due_at              |-> toUTC(<<now + minutes>>, clockRead),
   last_reviewed_at    |-> toUTC(<<now>>, clockRead)]

\* variant: graduation resumes from the stored interval when it is longer
graduate_resumesInterval(p, rating, days, stepIndex, now, clockRead, tzOffset) ==
  [state               |-> CARD_STATE_REVIEW,
   ease_factor         |-> calculateNewEaseFactor(p.ease_factor, rating),
   interval_days       |-> MathMax(p.interval_days, days),
   repetitions         |-> 1,
   lapses              |-> p.lapses,
   learning_step_index |-> stepIndex,
   due_at              |-> computeLocalMidnight(MathMax(p.interval_days, days),
                                                clockRead, tzOffset),
   last_reviewed_at    |-> toUTC(<<now>>, clockRead)]

\* variant: graduation leaves the stored repetitions alone
graduate_keepsRepetitions(p, rating, days, stepIndex, now, clockRead, tzOffset) ==
  [state               |-> CARD_STATE_REVIEW,
   ease_factor         |-> calculateNewEaseFactor(p.ease_factor, rating),
   interval_days       |-> days,
   repetitions         |-> p.repetitions,
   lapses              |-> p.lapses,
   learning_step_index |-> stepIndex,
   due_at              |-> computeLocalMidnight(days, clockRead, tzOffset),
   last_reviewed_at    |-> toUTC(<<now>>, clockRead)]

\* variant: graduation counts on from the stored repetitions
graduate_countsOn(p, rating, days, stepIndex, now, clockRead, tzOffset) ==
  [state               |-> CARD_STATE_REVIEW,
   ease_factor         |-> calculateNewEaseFactor(p.ease_factor, rating),
   interval_days       |-> days,
   repetitions         |-> p.repetitions + 1,
   lapses              |-> p.lapses,
   learning_step_index |-> stepIndex,
   due_at              |-> computeLocalMidnight(days, clockRead, tzOffset),
   last_reviewed_at    |-> toUTC(<<now>>, clockRead)]

\* GOOD and EASY in the learning phase
graduate(p, rating, days, stepIndex, now, clockRead, tzOffset) ==
  [state               |-> CARD_STATE_REVIEW,
   ease_factor         |-> calculateNewEaseFactor(p.ease_factor, rating),
   interval_days       |-> days,
   repetitions         |-> 1,
   lapses              |-> p.lapses,
   learning_step_index |-> stepIndex,
   due_at              |-> computeLocalMidnight(days, clockRead, tzOffset),
   last_reviewed_at    |-> toUTC(<<now>>, clockRead)]

\* a rating no branch of the learning phase handles: dueAt stays undefined
fallThrough(p, now, clockRead) ==
  [state               |-> p.state,
   ease_factor         |-> p.ease_factor,
   interval_days       |-> p.interval_days,
   repetitions         |-> p.repetitions,
   lapses              |-> p.lapses,
   learning_step_index |-> p.learning_step_index,
   due_at              |-> toUTC(<<>>, clockRead),
   last_reviewed_at    |-> toUTC(<<now>>, clockRead)]

\* variant: a lapse makes the card new again
lapse_toNew(p, o, now, clockRead) ==
  [state               |-> CARD_STATE_NEW,
   ease_factor         |-> MathMax(MinEaseFactor, p.ease_factor - 20),
   interval_days       |-> MathMax(1, MathRound(p.interval_days
                                                  * o.lapseIntervalPercent, 100)),
   repetitions         |-> p.repetitions,
   lapses              |-> p.lapses + 1,
   learning_step_index |-> 0,
   due_at              |-> toUTC(<<now + LEARNING_INTERVALS_AGAIN>>, clockRead),
   last_reviewed_at    |-> toUTC(<<now>>, clockRead)]

\* variant: the reduced interval is not floored at one day
lapse_noIntervalFloor(p, o, now, clockRead) ==
  [state               |-> CARD_STATE_LEARNING,
   ease_factor         |-> MathMax(MinEaseFactor, p.ease_factor - 20),
   interval_days       |-> MathRound(p.interval_days * o.lapseIntervalPercent, 100),
   repetitions         |-> p.repetitions,
   lapses              |-> p.lapses + 1,
   learning_step_index |-> 0,
   due_at              |-> toUTC(<<now + LEARNING_INTERVALS_AGAIN>>, clockRead),
   last_reviewed_at    |-> toUTC(<<now>>, clockRead)]

\* variant: the lowered ease is not floored at 1.3
lapse_noEaseFloor(p, o, now, clockRead) ==
  [state               |-> CARD_STATE_LEARNING,
   ease_factor         |-> p.ease_factor - 20,
   interval_days       |-> MathMax(1, MathRound(p.interval_days
                                                  * o.lapseIntervalPercent, 100)),
   repetitions         |-> p.repetitions,
   lapses              |-> p.lapses + 1,
   learning_step_index |-> 0,
   due_at              |-> toUTC(<<now + LEARNING_INTERVALS_AGAIN>>, clockRead),
   last_reviewed_at    |-> toUTC(<<now>>, clockRead)]

\* variant: the lapse is not counted
lapse_notCounted(p, o, now, clockRead) ==
  [state               |-> CARD_STATE_LEARNING,
   ease_factor         |-> MathMax(MinEaseFactor, p.ease_factor - 20),
   interval_days       |-> MathMax(1, MathRound(p.interval_days
                                                  * o.lapseIntervalPercent, 100)),
   repetitions         |-> p.repetitions,
   lapses              |-> p.lapses,
   learning_step_index |-> 0,
   due_at              |-> toUTC(<<now + LEARNING_INTERVALS_AGAIN>>, clockRead),
   last_reviewed_at    |-> toUTC(<<now>>, clockRead)]

\* AGAIN in the review phase
lapse(p, o, now, clockRead) ==
  [state               |-> CARD_STATE_LEARNING,
   ease_factor         |-> MathMax(MinEaseFactor, p.ease_factor - 20),
   interval_days       |-> MathMax(1, MathRound(p.interval_days
                                                  * o.lapseIntervalPercent, 100)),
   repetitions         |-> p.repetitions,
   lapses              |-> p.lapses + 1,
   learning_step_index |-> 0,
   due_at              |-> toUTC(<<now + LEARNING_INTERVALS_AGAIN>>, clockRead),
   last_reviewed_at    |-> toUTC(<<now>>, clockRead)]

\* variant: the cap is applied to the interval before it is fuzzed
successfulReview_capBeforeFuzz(p, rating, o, now, clockRead, rand, tzOffset) ==
  LET newEaseFactor == calculateNewEaseFactor(p.ease_factor, rating)
      capped == applyFuzz(100 * MathMin(o.maxIntervalDays,
                                        roundedBaseInterval(p, rating, o,
                                                            newEaseFactor)),
                          FALSE, rand) \div 100
      newIntervalDays == MathMax(1, capped)
  IN  [state               |-> p.state,
       ease_factor         |-> newEaseFactor,
       interval_days       |-> newIntervalDays,
       repetitions         |-> p.repetitions + 1,
       lapses              |-> p.lapses,
       learning_step_index |-> p.learning_step_index,
       due_at              |-> computeLocalMidnight(newIntervalDays, clockRead, tzOffset),
       last_reviewed_at    |-> toUTC(<<now>>, clockRead)]

\* applyFuzz reaches Math.random() only in a successful review whose rounded
\* base interval is at least 2
fuzzIsDrawn(p, r, o) ==
  /\ ~(p.state = CARD_STATE_NEW \/ p.state = CARD_STATE_LEARNING)
  /\ r # RATING_AGAIN
  /\ roundedBaseInterval(p, r, o, calculateNewEaseFactor(p.ease_factor, r)) >= 2

\* "Apply fuzz and cap": the interval of a successful review; disabled is
\* the flag handed to applyFuzz, which the scheduler leaves at its default.
\* applyFuzz is handed a whole number and so returns one.
newIntervalDays(p, rating, o, disabled, rand) ==
  LET newEaseFactor == calculateNewEaseFactor(p.ease_factor, rating)
      fuzzed == applyFuzz(100 * roundedBaseInterval(p, rating, o, newEaseFactor),
                          disabled, rand) \div 100
      capped == MathMin(o.maxIntervalDays, fuzzed)
  IN  MathMax(1, capped)

\* any other rating in the review phase
successfulReview(p, rating, o, now, clockRead, rand, tzOffset) ==
  LET newEaseFactor == calculateNewEaseFactor(p.ease_factor, rating)
      intervalDays == newIntervalDays(p, rating, o, FALSE, rand)
  IN  [state               |-> p.state,
       ease_factor         |-> newEaseFactor,
       interval_days       |-> intervalDays,
       repetitions         |-> p.repetitions + 1,
       lapses              |-> p.lapses,
       learning_step_index |-> p.learning_step_index,
       due_at              |-> computeLocalMidnight(intervalDays, clockRead, tzOffset),
       last_reviewed_at    |-> toUTC(<<now>>, clockRead)]

\* variant: AGAIN in the learning phase waits for the first parsed step
scheduleNextReview_firstStepOnAgain(progress, rating, deckOptions, now, clockRead, rand, tzOffset) ==
  LET o == resolveDeckOptions(deckOptions)
      steps == parseLearningSteps(o.learningSteps)
      p == resolveProgress(progress)
  IN  IF p.state = CARD_STATE_NEW \/ p.state = CARD_STATE_LEARNING
      THEN CASE rating = RATING_AGAIN ->
                  learningStep(p, 0, steps[1] \div 1000, now, clockRead)
             [] rating = RATING_HARD ->
                  learningStep(p, p.learning_step_index, LEARNING_INTERVALS_HARD,
                               now, clockRead)
             [] rating = RATING_GOOD ->
                  graduate(p, rating, 1, 1, now, clockRead, tzOffset)
             [] rating = RATING_EASY ->
                  graduate(p, rating, 4, p.learning_step_index, now, clockRead,
                           tzOffset)
             [] OTHER -> fallThrough(p, now, clockRead)
      ELSE IF rating = RATING_AGAIN
           THEN lapse(p, o, now, clockRead)
           ELSE successfulReview(p, rating, o, now, clockRead, rand, tzOffset)

\* steps is parsed and then never read
scheduleNextReview(progress, rating, deckOptions, now, clockRead, rand, tzOffset) ==
  LET o == resolveDeckOptions(deckOptions)
      steps == parseLearningSteps(o.learningSteps)
      p == resolveProgress(progress)
  IN  IF p.state = CARD_STATE_NEW \/ p.state = CARD_STATE_LEARNING
      THEN CASE rating = RATING_AGAIN ->
                  learningStep(p, 0, LEARNING_INTERVALS_AGAIN, now, clockRead)
             [] rating = RATING_HARD ->
                  learningStep(p, p.learning_step_index, LEARNING_INTERVALS_HARD,
                               now, clockRead)
             [] rating = RATING_GOOD ->
                  graduate(p, rating, 1, 1, now, clockRead, tzOffset)
             [] rating = RATING_EASY ->
                  graduate(p, rating, 4, p.learning_step_index, now, clockRead,
                           tzOffset)
             [] OTHER -> fallThrough(p, now, clockRead)
      ELSE IF rating = RATING_AGAIN
           THEN lapse(p, o, now, clockRead)
           ELSE successfulReview(p, rating, o, now, clockRead, rand, tzOffset)

\* the preview's interval for one rating, in minutes
previewIntervalMinutes(p, rating, o) ==
  IF p.state = CARD_STATE_NEW \/ p.state = CARD_STATE_LEARNING
  THEN CASE rating = RATING_AGAIN -> LEARNING_INTERVALS_AGAIN
         [] rating = RATING_HARD -> LEARNING_INTERVALS_HARD
         [] rating = RATING_GOOD -> LEARNING_INTERVALS_GOOD
         [] rating = RATING_EASY -> LEARNING_INTERVALS_EASY
  ELSE IF rating = RATING_AGAIN
       THEN LEARNING_INTERVALS_AGAIN
       ELSE LET newEaseFactor == calculateNewEaseFactor(p.ease_factor, rating)
                intervalDays ==
                  MathMin(o.maxIntervalDays,
                          MathMax(1, roundedBaseInterval(p, rating, o,
                                                         newEaseFactor)))
            IN  intervalDays * 1440

\* steps is parsed and then never read
previewNextIntervals(progress, deckOptions) ==
  LET o == resolveDeckOptions(deckOptions)
      steps == parseLearningSteps(o.learningSteps)
      p == resolveProgress(progress)
  IN  [again |-> previewIntervalMinutes(p, RATING_AGAIN, o),
       hard  |-> previewIntervalMinutes(p, RATING_HARD, o),
       good  |-> previewIntervalMinutes(p, RATING_GOOD, o),
       easy  |-> previewIntervalMinutes(p, RATING_EASY, o)]

(***************************************************************************)
(* The storage the services read and write.  The decks and cards tables    *)
(* hold the signed-in user's two decks and three cards; card_progress is   *)
(* a variable.  null is <<>> and a present value v is <<v>>.               *)
(***************************************************************************)
\* user.id of the session, and the id of another user with rows of their own
userId == "u1"

otherUserId == "u2"

\* the decks table in updated_at descending order; d2's option columns are NULL
decks ==
  << [id |-> "d1", easy_bonus |-> 150, hard_interval_factor |-> 100,
      lapse_interval_percent |-> 50, interval_modifier |-> 100,
      max_interval_days |-> 5,
      learning_steps |-> <<"1", "m", ",", " ", "3", "D">>],
     [id |-> "d2"] >>

\* the cards table
cards ==
  { [id |-> "c1", deck_id |-> "d1"],
    [id |-> "c2", deck_id |-> "d1"],
    [id |-> "c3", deck_id |-> "d2"] }

\* the error object a failing storage call hands back
StorageError(call) == [message |-> call]

\* .single() on a selection that is not exactly one row
singleError == [message |-> "single"]

\* the new Error('Failed to load cards') thrown by loadStudySession
FailedToLoadCards == [message |-> "Failed to load cards"]

\* .from('cards').select('id').in('deck_id', deckIds)
cardIdsOf(deckIds) == {c.id : c \in {x \in cards : x.deck_id \in deckIds}}

\* new Map(cards.map((c) => [c.id, c])).get(cardId)
cardMap(cardId) == CHOOSE c \in cards : c.id = cardId

\* .from('card_progress').select().eq('user_id', userId).in('card_id', cardIds)
selectProgress(table, forUser, cardIds) ==
  {r \in table : r.user_id = forUser /\ r.card_id \in cardIds}

\* ... .lte('due_at', nowUTC)
dueProgress(table, forUser, cardIds, nowUTC) ==
  {r \in selectProgress(table, forUser, cardIds) : r.due_at <= nowUTC}

\* ... .eq('state', CARD_STATE.LEARNING)
learningProgress(table, forUser, cardIds) ==
  {r \in selectProgress(table, forUser, cardIds) : r.state = CARD_STATE_LEARNING}

\* variant: a card due exactly now counts as still to come
subDayProgress_dueNowIncluded(table, forUser, cardIds, nowUTC) ==
  {r \in learningProgress(table, forUser, cardIds) : r.due_at >= nowUTC}

\* ... .eq('state', CARD_STATE.LEARNING).gt('due_at', nowUTC)
subDayProgress(table, forUser, cardIds, nowUTC) ==
  {r \in learningProgress(table, forUser, cardIds) : r.due_at > nowUTC}

\* .order('due_at', {ascending: true}): every order the storage may return
\* the rows in, rows of equal due_at in either order
orderByDueAt(rows) ==
  {s \in [1..Cardinality(rows) -> rows] :
     \A i, j \in 1..Cardinality(rows) :
       i < j => (s[i] # s[j] /\ s[i].due_at <= s[j].due_at)}

\* progressRows.map((progress) => ({card: cardMap.get(progress.card_id), progress}))
toPairs(progressRows) ==
  [i \in 1..Len(progressRows) |->
     [card |-> cardMap(progressRows[i].card_id), progress |-> progressRows[i]]]

\* variant: the comparator looks at due_at only
compareDue_byDueAtOnly(a, b) == a.progress.due_at - b.progress.due_at

\* the comparator handed to sort in getDueCards
compareDue(a, b) ==
  LET aIsLearning == a.progress.state = CARD_STATE_LEARNING
      bIsLearning == b.progress.state = CARD_STATE_LEARNING
  IN  IF aIsLearning /\ ~bIsLearning THEN -1
      ELSE IF ~aIsLearning /\ bIsLearning THEN 1
      ELSE a.progress.due_at - b.progress.due_at

\* Array.prototype.sort with compareDue: a stable sort, by insertion
RECURSIVE sortInsert(_, _)
sortInsert(sorted, x) ==
  IF sorted = <<>> THEN <<x>>
  ELSE IF compareDue(sorted[Len(sorted)], x) <= 0 THEN Append(sorted, x)
  ELSE Append(sortInsert(SubSeq(sorted, 1, Len(sorted) - 1), x),
              sorted[Len(sorted)])

RECURSIVE Array_sort(_)
Array_sort(array) ==
  IF array = <<>> THEN <<>>
  ELSE sortInsert(Array_sort(SubSeq(array, 1, Len(array) - 1)), array[Len(array)])

\* variant: a created row already counts one repetition
newRow_oneRepetition(nowUTC) ==
  [repetitions         |-> 1,
   ease_factor         |-> 250,
   interval_days       |-> 0,
   due_at              |-> nowUTC,
   state               |-> CARD_STATE_NEW,
   lapses              |-> 0,
   learning_step_index |-> 0]

\* ensureProgressForDeck: the row inserted for a card without progress
newRow(nowUTC) ==
  [repetitions         |-> 0,
   ease_factor         |-> 250,
   interval_days       |-> 0,
   due_at              |-> nowUTC,
   state               |-> CARD_STATE_NEW,
   lapses              |-> 0,
   learning_step_index |-> 0]

\* missingCardIds.map((cardId) => ({user_id: userId, card_id: cardId, ...}))
newRows(forUser, missingCardIds, nowUTC) ==
  {[user_id |-> forUser, card_id |-> c] @@ newRow(nowUTC) : c \in missingCardIds}

\* In the operators below fails is the set of storage calls that fail if
\* they are made, and raised collects the errors of those that were made.

\* decksService.js getDeckOptions
getDeckOptions(deckId, fails) ==
  LET data == CHOOSE d \in {decks[i] : i \in DOMAIN decks} : d.id = deckId
  IN  IF "options" \in fails
      THEN [data |-> <<>>, error |-> <<StorageError("options")>>]
      ELSE [data |-> << [easyBonus            |-> FieldOr(data, "easy_bonus", 130),
                         hardIntervalFactor   |-> FieldOr(data, "hard_interval_factor", 120),
                         lapseIntervalPercent |-> FieldOr(data, "lapse_interval_percent", 10),
                         intervalModifier     |-> FieldOr(data, "interval_modifier", 100),
                         maxIntervalDays      |-> FieldOr(data, "max_interval_days", 36500),
                         learningSteps        |-> FieldOr(data, "learning_steps",
                                                          DefaultLearningSteps)] >>,
            error |-> <<>>]

\* variant: a row is inserted for every card of the deck
ensureProgressForDeck_insertsAll(table, forUser, deckId, nowUTC, fails) ==
  LET cardIds == cardIdsOf({deckId})
      existingCardIds == {p.card_id : p \in selectProgress(table, forUser, cardIds)}
      missingCardIds == cardIds \ existingCardIds
      failing(call) == [table |-> table,
                        ret |-> [error |-> <<StorageError(call)>>,
                                 raised |-> {StorageError(call)},
                                 missing |-> missingCardIds, created |-> {}]]
  IN  IF "cards" \in fails THEN failing("cards")
      ELSE IF cardIds = {}
        THEN [table |-> table,
              ret |-> [data |-> <<{}>>, error |-> <<>>, raised |-> {},
                       missing |-> {}, created |-> {}]]
      ELSE IF "progress" \in fails THEN failing("progress")
      ELSE IF missingCardIds # {} /\ "insert" \in fails THEN failing("insert")
      ELSE [table |-> table \cup newRows(forUser, cardIds, nowUTC),
            ret |-> [data |-> <<cardIds>>, error |-> <<>>, raised |-> {},
                     missing |-> missingCardIds, created |-> missingCardIds]]

\* returns the table it leaves and what it returns to its caller; the
\* failing paths return {error} without a data field
ensureProgressForDeck(table, forUser, deckId, nowUTC, fails) ==
  LET cardIds == cardIdsOf({deckId})
      existingCardIds == {p.card_id : p \in selectProgress(table, forUser, cardIds)}
      missingCardIds == cardIds \ existingCardIds
      failing(call) == [table |-> table,
                        ret |-> [error |-> <<StorageError(call)>>,
                                 raised |-> {StorageError(call)},
                                 missing |-> missingCardIds, created |-> {}]]
  IN  IF "cards" \in fails THEN failing("cards")
      ELSE IF cardIds = {}
        THEN [table |-> table,
              ret |-> [data |-> <<{}>>, error |-> <<>>, raised |-> {},
                       missing |-> {}, created |-> {}]]
      ELSE IF "progress" \in fails THEN failing("progress")
      ELSE IF missingCardIds # {} /\ "insert" \in fails THEN failing("insert")
      ELSE [table |-> table \cup newRows(forUser, missingCardIds, nowUTC),
            ret |-> [data |-> <<cardIds>>, error |-> <<>>, raised |-> {},
                     missing |-> missingCardIds, created |-> missingCardIds]]

\* progressRows is the order the storage returned the due rows in
getDueCards(table, forUser, deckId, nowUTC, fails, progressRows) ==
  LET cardIds == cardIdsOf({deckId})
      failing(call) == [data |-> <<>>, error |-> <<StorageError(call)>>,
                        raised |-> {StorageError(call)}]
  IN  IF "cards" \in fails THEN failing("cards")
      ELSE IF cardIds = {} THEN [data |-> << <<>> >>, error |-> <<>>, raised |-> {}]
      ELSE IF "progress" \in fails THEN failing("progress")
      ELSE [data |-> <<Array_sort(toPairs(progressRows))>>, error |-> <<>>,
            raised |-> {}]

\* getAllLearningCards and getSubDayCards: the rows in the storage's order
getLearningCards(deckId, fails, progressRows) ==
  LET cardIds == cardIdsOf({deckId})
      failing(call) == [data |-> <<>>, error |-> <<StorageError(call)>>,
                        raised |-> {StorageError(call)}]
  IN  IF "cards" \in fails THEN failing("cards")
      ELSE IF cardIds = {} THEN [data |-> << <<>> >>, error |-> <<>>, raised |-> {}]
      ELSE IF "progress" \in fails THEN failing("progress")
      ELSE [data |-> <<toPairs(progressRows)>>, error |-> <<>>, raised |-> {}]

\* returns the table it leaves and what it returns to its caller
getDueDecks(table, forUser, nowUTC, fails) ==
  LET deckIds == {decks[i].id : i \in DOMAIN decks}
      allCardIds == cardIdsOf(deckIds)
      existingCardIds == {p.card_id : p \in selectProgress(table, forUser, allCardIds)}
      missingCardIds == allCardIds \ existingCardIds
      insertError == IF missingCardIds # {} /\ "insert" \in fails
                     THEN {StorageError("insert")} ELSE {}
      inserted == IF insertError = {}
                  THEN table \cup newRows(forUser, missingCardIds, nowUTC)
                  ELSE table
      dueCardIds == {p.card_id : p \in dueProgress(inserted, forUser, allCardIds, nowUTC)}
      deckDueCounts(deckId) ==
        Cardinality({c \in dueCardIds : cardMap(c).deck_id = deckId})
      dueDecks == SelectSeq(decks, LAMBDA deck : deckDueCounts(deck.id) > 0)
      failing(call, leaves, earlier) ==
        [table |-> leaves,
         ret |-> [data |-> <<>>, error |-> <<StorageError(call)>>,
                  raised |-> earlier \cup {StorageError(call)}]]
      empty == [table |-> table,
                ret |-> [data |-> << <<>> >>, error |-> <<>>, raised |-> {}]]
  IN  IF "decks" \in fails THEN failing("decks", table, {})
      ELSE IF Len(decks) = 0 THEN empty
      ELSE IF "cards" \in fails THEN failing("cards", table, {})
      ELSE IF allCardIds = {} THEN empty
      ELSE IF "progress" \in fails THEN failing("progress", table, {})
      ELSE IF "due" \in fails THEN failing("due", inserted, insertError)
      ELSE [table |-> inserted,
            ret |-> [data |-> << [i \in 1..Len(dueDecks) |->
                                    [id |-> dueDecks[i].id,
                                     dueCount |-> deckDueCounts(dueDecks[i].id)]] >>,
                     error |-> <<>>,
                     raised |-> insertError]]

\* schema.sql UNIQUE (user_id, card_id): the error of an insert that would
\* store a second row for a pair
UniqueViolation == [message |-> "unique"]

\* variant: the insert replaces the rows that are in its way (an upsert)
insertRows_upserts(table, rows) ==
  [table |-> {r \in table : \A n \in rows :
                 ~(n.user_id = r.user_id /\ n.card_id = r.card_id)} \cup rows,
   error |-> <<>>]

\* .from('card_progress').insert(newRows): one statement, so either every
\* row of the batch is stored or, when one of them collides with a stored
\* row, none is
insertRows(table, rows) ==
  IF \E n \in rows, r \in table : n.user_id = r.user_id /\ n.card_id = r.card_id
  THEN [table |-> table, error |-> <<UniqueViolation>>]
  ELSE [table |-> table \cup rows, error |-> <<>>]

\* cardIds.filter((id) => !existingCardIds.has(id)) on the rows just read
missingProgress(table, forUser, cardIds) ==
  cardIds \ {p.card_id : p \in selectProgress(table, forUser, cardIds)}

\* getDueDecks from its due query on, the storage not failing
countDueDecks(table, forUser, nowUTC) ==
  LET allCardIds == cardIdsOf({decks[i].id : i \in DOMAIN decks})
      dueCardIds == {p.card_id : p \in dueProgress(table, forUser, allCardIds, nowUTC)}
      deckDueCounts(deckId) ==
        Cardinality({c \in dueCardIds : cardMap(c).deck_id = deckId})
      dueDecks == SelectSeq(decks, LAMBDA deck : deckDueCounts(deck.id) > 0)
  IN  [i \in 1..Len(dueDecks) |->
         [id |-> dueDecks[i].id, dueCount |-> deckDueCounts(dueDecks[i].id)]]

\* rows is the order the storage returned the later-due rows in; limit(1)
getNextDueAt(fails, rows) ==
  IF "progress" \in fails
  THEN [data |-> <<>>, error |-> <<StorageError("progress")>>,
        raised |-> {StorageError("progress")}]
  ELSE [data |-> IF Len(rows) > 0 THEN <<rows[1].due_at>> ELSE <<>>,
        error |-> <<>>, raised |-> {}]

\* variant: due_at is overwritten only by a later instant
updatedRow_keepsLaterDueAt(progress, newValues) ==
  [f \in DOMAIN progress \cup DOMAIN newValues |->
     IF f = "due_at" /\ f \in DOMAIN progress /\ f \in DOMAIN newValues
     THEN MathMax(progress[f], newValues[f])
     ELSE IF f \in DOMAIN newValues THEN newValues[f] ELSE progress[f]]

\* .update(newValues) on the row progress: the columns of newValues replaced
updatedRow(progress, newValues) ==
  [f \in DOMAIN progress \cup DOMAIN newValues |->
     IF f \in DOMAIN newValues THEN newValues[f] ELSE progress[f]]

\* gradeCardWithRating from the update on: updated is the row to be stored,
\* earlier the errors raised and passed over before
updateProgress(table, progress, updated, fails, earlier) ==
  IF "update" \in fails
  THEN [table |-> table,
        ret |-> [data |-> <<>>, error |-> <<StorageError("update")>>,
                 raised |-> earlier \cup {StorageError("update")},
                 found |-> {progress}]]
  ELSE [table |-> (table \ {progress}) \cup {updated},
        ret |-> [data |-> <<updated>>, error |-> <<>>, raised |-> earlier,
                 found |-> {progress}]]

\* the deckOptions gradeCardWithRating hands to the scheduler: null when the
\* lookup failed
loadedDeckOptions(options) == IF options.data = <<>> THEN <<>> ELSE options.data[1]

\* the errors of the deck-options lookup, which the call passes over
optionsErrors(options) == IF options.error = <<>> THEN {} ELSE {options.error[1]}

\* deckId is <<>> when the caller passes none.  Returns the table the call
\* leaves and what it returns to its caller.
gradeCardWithRating(table, forUser, cardId, rating, deckId, fails, now, clockRead, rand, tzOffset) ==
  LET found == selectProgress(table, forUser, {cardId})
      progress == CHOOSE r \in found : TRUE
      actualDeckId == IF deckId = <<>> THEN cardMap(cardId).deck_id ELSE deckId[1]
      options == getDeckOptions(actualDeckId, fails)
      failing(error) ==
        [table |-> table,
         ret |-> [data |-> <<>>, error |-> <<error>>, raised |-> {error},
                  found |-> found]]
  IN  IF "progress" \in fails THEN failing(StorageError("progress"))
      ELSE IF Cardinality(found) # 1 THEN failing(singleError)
      ELSE IF deckId = <<>> /\ "card" \in fails THEN failing(StorageError("card"))
      ELSE updateProgress(table, progress,
                          updatedRow(progress,
                                     scheduleNextReview(progress, rating,
                                                        loadedDeckOptions(options),
                                                        now, clockRead, rand,
                                                        tzOffset)),
                          fails, optionsErrors(options))

\* the Math.random() draws of the model: the two ends and the middle of [0, 1)
RandDraws == {0, 50, 99}

\* what stands for the draw when a call did not reach Math.random()
NoDraw == -1

\* the Math.random() draws a gradeCardWithRating call may see: NoDraw only
\* when it does not reach applyFuzz's random branch
gradeDraws(table, forUser, cardId, rating, deckId, fails) ==
  LET found == selectProgress(table, forUser, {cardId})
      actualDeckId == IF deckId = <<>> THEN cardMap(cardId).deck_id ELSE deckId[1]
  IN  IF /\ "progress" \notin fails
         /\ Cardinality(found) = 1
         /\ ~(deckId = <<>> /\ "card" \in fails)
         /\ fuzzIsDrawn(resolveProgress(CHOOSE r \in found : TRUE), rating,
                        resolveDeckOptions(
                          loadedDeckOptions(getDeckOptions(actualDeckId, fails))))
      THEN RandDraws
      ELSE {NoDraw}

(***************************************************************************)
(* sessionService.js and routes/studyPage/StudyPage.jsx.  storage is the   *)
(* localStorage of the signed-in user, one entry per deck; currentIndex    *)
(* counts from 0 as in the source.                                         *)
(***************************************************************************)
\* maxAge of a saved session: 24 hours, in minutes
SessionMaxAge == 24 * 60

saveSession(storage, deckId, cardIds, currentIndex, clockRead) ==
  [storage EXCEPT ![deckId] = << [cardIds |-> cardIds,
                                  currentIndex |-> currentIndex,
                                  createdAt |-> clockRead] >>]

clearSession(storage, deckId) == [storage EXCEPT ![deckId] = <<>>]

\* the session returned (<<>> for null) and the storage left: an entry older
\* than 24 hours is removed
loadSession(storage, deckId, clockRead) ==
  IF storage[deckId] = <<>>
  THEN [session |-> <<>>, storage |-> storage]
  ELSE IF clockRead - storage[deckId][1].createdAt > SessionMaxAge
    THEN [session |-> <<>>, storage |-> clearSession(storage, deckId)]
  ELSE [session |-> storage[deckId], storage |-> storage]

\* items.map((item) => item.card.id)
cardIdsIn(items) == [i \in 1..Len(items) |-> items[i].card.id]

\* existingSession.cardIds.filter((id) => cardMap.has(id)).map(...)
resumedQueue(cardIds, dueCards) ==
  LET kept == SelectSeq(cardIds, LAMBDA id :
                          \E i \in 1..Len(dueCards) : dueCards[i].card.id = id)
  IN  [i \in 1..Len(kept) |->
         CHOOSE item \in {dueCards[j] : j \in 1..Len(dueCards)} :
           item.card.id = kept[i]]

\* [...freshDueCards, ...subDayCards not among them]
combinedQueue(freshDueCards, subDayCards) ==
  freshDueCards
    \o SelectSeq(subDayCards, LAMBDA item :
                   \A i \in 1..Len(freshDueCards) :
                     freshDueCards[i].card.id # item.card.id)

\* the component showing queue from its first card on, the session saved
showQueue(deckId, queue, index, storage, clockRead) ==
  [page |-> [deckId |-> <<deckId>>, queue |-> queue, currentIndex |-> index,
             completed |-> FALSE, error |-> <<>>],
   storage |-> saveSession(storage, deckId, cardIdsIn(queue), index, clockRead)]

\* loadStudySession after getDueCards has returned dueCards: the component
\* state, fresh from the mount, and the storage it leaves
loadedSession(deckId, storage, dueCards, clockRead) ==
  LET existing == loadSession(storage, deckId, clockRead)
      fresh == [deckId |-> <<deckId>>, queue |-> <<>>, currentIndex |-> 0,
                completed |-> FALSE, error |-> <<>>]
  IN  IF existing.session # <<>> /\ Len(existing.session[1].cardIds) > 0
      THEN LET resumed == resumedQueue(existing.session[1].cardIds, dueCards)
           IN  IF Len(resumed) = 0
               THEN [page |-> [fresh EXCEPT !.completed = TRUE],
                     storage |-> clearSession(existing.storage, deckId)]
               ELSE showQueue(deckId, resumed,
                              MathMin(existing.session[1].currentIndex,
                                      Len(resumed) - 1),
                              existing.storage, clockRead)
      ELSE IF Len(dueCards) = 0
           THEN [page |-> [fresh EXCEPT !.completed = TRUE],
                 storage |-> existing.storage]
           ELSE showQueue(deckId, dueCards, 0, existing.storage, clockRead)

\* handleGrade after gradeCardWithRating has returned without error: shown
\* is the component state, rating the rating given, and the three lists are
\* what getDueCards, getSubDayCards and getAllLearningCards return
gradedSession(shown, rating, storage, freshDueCards, subDayCards, remainingLearning, clockRead) ==
  LET deckId == shown.deckId[1]
      currentCard == shown.queue[shown.currentIndex + 1]
      isAgainOrHard == rating = RATING_AGAIN \/ rating = RATING_HARD
      isLearningOrNew == \/ currentCard.progress.state = CARD_STATE_LEARNING
                         \/ currentCard.progress.state = CARD_STATE_NEW
      combined == combinedQueue(freshDueCards, subDayCards)
      allCards == freshDueCards \o subDayCards
      updatedCurrent == SelectSeq(allCards, LAMBDA item :
                                    item.card.id = currentCard.card.id)
      completedSession == [page |-> [shown EXCEPT !.completed = TRUE],
                           storage |-> clearSession(storage, deckId)]
      newIndex == shown.currentIndex + 1
  IN  IF isAgainOrHard /\ isLearningOrNew
      THEN IF Len(combined) > 0
           THEN showQueue(deckId, combined, 0, storage, clockRead)
           ELSE IF /\ Len(updatedCurrent) > 0
                   /\ updatedCurrent[1].progress.state = CARD_STATE_LEARNING
                THEN showQueue(deckId, <<updatedCurrent[1]>>, 0, storage, clockRead)
                ELSE completedSession
      ELSE IF newIndex >= Len(shown.queue)
           THEN IF Len(combined) > 0
                THEN showQueue(deckId, combined, 0, storage, clockRead)
                ELSE IF Len(remainingLearning) > 0
                     THEN showQueue(deckId, remainingLearning, 0, storage, clockRead)
                     ELSE completedSession
           ELSE showQueue(deckId, shown.queue, newIndex, storage, clockRead)

(***************************************************************************)
(* State.                                                                  *)
(***************************************************************************)
VARIABLES
  progress,      \* the card_progress row of one (user, card)
  clock,         \* the wall clock, minutes since the epoch
  tz,            \* offset of the local time zone from UTC, minutes
  deckOptions,   \* what the deck-options lookup hands to the scheduler
  budget,        \* gradings still to be made
  outcome,       \* the last call: "none", "returned" (scheduler), "previewed"
  before,        \* the progress argument of the last call
  rating,        \* the rating argument of the last call
  now,           \* the instant the last call read as its now
  baseInterval,  \* Math.round(baseInterval) of the last call (0: not computed)
  rand,          \* the Math.random() draw of the last call (NoDraw: none)
  lapseCount,    \* history: AGAIN ratings applied while the state was REVIEW
  streak,        \* history: successful ratings since the last lapse
  preview,       \* what previewNextIntervals last returned (<<>>: nothing yet)
  card_progress, \* the card_progress table: a set of rows
  result,        \* what the last service call returned to its caller, with
                 \* its arguments and the errors the storage raised in it
  grading,       \* the gradeCardWithRating calls in flight, per caller
  page,          \* the state of the mounted StudyPage component
  localStorage,  \* the study session saved per deck of the signed-in user
  creating       \* the lazy-create calls in flight, per caller

schedulerVars == <<progress, clock, tz, deckOptions, budget, outcome, before,
                   rating, now, baseInterval, rand, lapseCount, streak>>

storeVars == <<card_progress, result>>

vars == <<schedulerVars, preview, storeVars, grading, page, localStorage,
          creating>>

\* the inputs the model draws from
Ratings == {RATING_AGAIN, RATING_HARD, RATING_GOOD, RATING_EASY}

UnrecognizedRatings == {0, 5}

\* minutes between two calls, and minutes the clock may advance inside a call
Elapsed == {0, 719}

Ticks == {0, 1}

TimeZones == {0, -720}

FirstInstant == MinutesPerDay

\* minutes between two service calls in the specification of the store
StoreElapsed == {2}

\* a row of another user for card c1, in the table from the start
otherUsersRow ==
  [user_id             |-> otherUserId,
   card_id             |-> "c1",
   repetitions         |-> 0,
   ease_factor         |-> 250,
   interval_days       |-> 0,
   due_at              |-> FirstInstant,
   state               |-> CARD_STATE_LEARNING,
   lapses              |-> 0,
   learning_step_index |-> 0]

\* the user's row for card c1 after one AGAIN two minutes before the start;
\* card c2 of the same deck was added after that visit
usersRow ==
  [user_id             |-> userId,
   card_id             |-> "c1",
   repetitions         |-> 0,
   ease_factor         |-> 250,
   interval_days       |-> 0,
   due_at              |-> FirstInstant,
   state               |-> CARD_STATE_LEARNING,
   lapses              |-> 0,
   learning_step_index |-> 0,
   last_reviewed_at    |-> FirstInstant - LEARNING_INTERVALS_AGAIN]

\* the tables the services under storage failures start from: the user's
\* first visit, and a visit with progress for some cards of a deck only
StoredTables == {{otherUsersRow}, {otherUsersRow, usersRow}}

\* the user's row for card c1 after a first GOOD two minutes before the start
reviewedRow ==
  [user_id             |-> userId,
   card_id             |-> "c1",
   repetitions         |-> 1,
   ease_factor         |-> 236,
   interval_days       |-> 1,
   due_at              |-> FirstInstant,
   state               |-> CARD_STATE_REVIEW,
   lapses              |-> 0,
   learning_step_index |-> 1,
   last_reviewed_at    |-> FirstInstant - 2]

\* the callers whose gradeCardWithRating calls may be in flight together
\* (two tabs or devices of the signed-in user), and a caller not in a call
Callers == {1, 2}

NotGrading == [pc |-> "idle"]

NoGradings == [caller \in Callers |-> NotGrading]

\* the tables the interleaved gradings start from: c1 in LEARNING, in REVIEW
GradedTables == {{otherUsersRow, usersRow}, {otherUsersRow, reviewedRow}}

\* the arguments of the helper calls: every ease factor up to MaxEaseInput,
\* every whole interval up to MaxFuzzDays days, and intervals that are not
\* whole or not positive (hundredths of a day)
EaseInputs == 0..MaxEaseInput

WholeIntervals == {100 * days : days \in 1..MaxFuzzDays}

OtherIntervals == {-150, 0, 50, 149, 150, 199, 249, 250, 1050}

\* the texts handed to parseLearningSteps: null or '' (both <<>>), every text
\* of up to MaxStepsLen characters of StepChars, and longer examples
StepChars == {"0", "1", "5", ".", "-", ",", "d", "h", "m", " "}

StepsExamples ==
  { <<"a", "b", "c", ",", "-", "1", ",", "0">>,
    <<"1", "0", "m", ",", "1", "d">>,
    <<"1", "m", ",", " ", "1", "0", "M", ",", " ", "1", "D">>,
    <<"0", ".", "5", "H", ",", "x", ",", "2", "d", ",", "1", "5">> }

\* the numbers of the text are exact in thousandths, and in minutes below
\* 2^31 thousandths: no more than three digits in a row
withinPrecision(str) == \A i \in 1..Len(str) : digitRun(str, i) <= 3

StepsInputs ==
  {str \in UNION {[1..n -> StepChars] : n \in 0..MaxStepsLen} :
     withinPrecision(str)}
    \cup StepsExamples

\* every value of Math.random() the model has
AllDraws == 0..(RandDen - 1)

DeckIds == {decks[i].id : i \in DOMAIN decks}

\* StudyPage is not mounted; nothing is saved in localStorage
NoPage ==
  [deckId |-> <<>>, queue |-> <<>>, currentIndex |-> 0, completed |-> FALSE,
   error |-> <<>>]

NoSessions == [deckId \in DeckIds |-> <<>>]

\* no lazy-create call is in flight
NoCreating == [caller \in Callers |-> [pc |-> "idle"]]

\* the calls that create missing rows: ensureProgressForDeck for a deck, and
\* getDueDecks (deckId <<>>)
LazyCreateCalls ==
  {[op |-> "ensureProgressForDeck", deckId |-> <<d>>] : d \in DeckIds}
    \cup {[op |-> "getDueDecks", deckId |-> <<>>]}

\* the storage calls that fail in one service call: none, each one alone, and
\* a swallowed failure followed by a later one
ReadFailures == {{}, {"cards"}, {"progress"}}

EnsureFailures == ReadFailures \cup {{"insert"}}

DueDecksFailures ==
  {{}, {"decks"}, {"cards"}, {"progress"}, {"insert"}, {"due"}, {"insert", "due"}}

GradeFailures ==
  {{}, {"progress"}, {"card"}, {"options"}, {"update"}, {"options", "update"}}

DeckOptionsSet ==
  { <<>>,
    [easyBonus |-> 150, hardIntervalFactor |-> 100, lapseIntervalPercent |-> 50,
     intervalModifier |-> 100, maxIntervalDays |-> 5,
     learningSteps |-> <<"1", "m", ",", " ", "3", "D">>],
    [lapseIntervalPercent |-> 0, intervalModifier |-> 250, maxIntervalDays |-> 0],
    [easyBonus |-> 130, hardIntervalFactor |-> 120, intervalModifier |-> 0,
     maxIntervalDays |-> 36500] }

\* rows with arbitrary field values
AnyRows ==
  [state               : {CARD_STATE_NEW, CARD_STATE_LEARNING, CARD_STATE_REVIEW},
   ease_factor         : {100, 130, 250},
   interval_days       : {0, 1, 10, 40},
   repetitions         : {0, 1, 2, 3},
   lapses              : {0, 1},
   learning_step_index : {0, 1},
   due_at              : {FirstInstant}]

\* deck options with negative fields, next to a partial and an empty one
NegativeOptionsSet ==
  { <<>>,
    [easyBonus |-> 150, maxIntervalDays |-> 20],
    [easyBonus |-> -130],
    [hardIntervalFactor |-> -120, easyBonus |-> 150],
    [lapseIntervalPercent |-> -10],
    [intervalModifier |-> -100, maxIntervalDays |-> 20],
    [maxIntervalDays |-> -5, intervalModifier |-> 250] }

InitEnvOver(optionsSet) ==
  /\ clock = FirstInstant
  /\ tz \in TimeZones
  /\ deckOptions \in optionsSet
  /\ outcome = "none"
  /\ before = progress
  /\ rating = 0
  /\ now = clock
  /\ baseInterval = 0
  /\ rand = NoDraw
  /\ lapseCount = 0
  /\ streak = 0
  /\ preview = <<>>
  /\ card_progress = {}
  /\ result = [op |-> "none"]
  /\ grading = NoGradings
  /\ page = NoPage
  /\ localStorage = NoSessions
  /\ creating = NoCreating

InitEnv == InitEnvOver(DeckOptionsSet)

\* a lazily created row
Init ==
  /\ progress = newRow(FirstInstant)
  /\ budget = MaxCalls
  /\ InitEnv

\* any row, graded once
InitAny ==
  /\ progress \in AnyRows
  /\ budget = 1
  /\ InitEnv

\* the session of the signed-in user before its first service call
InitSession ==
  /\ result = [op |-> "none"]
  /\ clock = FirstInstant
  /\ tz = 0
  /\ progress = newRow(FirstInstant)
  /\ deckOptions = <<>>
  /\ outcome = "none"
  /\ before = progress
  /\ rating = 0
  /\ now = clock
  /\ baseInterval = 0
  /\ rand = NoDraw
  /\ lapseCount = 0
  /\ streak = 0
  /\ preview = <<>>
  /\ grading = NoGradings
  /\ page = NoPage
  /\ localStorage = NoSessions
  /\ creating = NoCreating

\* any row, graded once under deck options that may hold negative fields
InitAnyOptions ==
  /\ progress \in AnyRows
  /\ budget = 1
  /\ InitEnvOver(NegativeOptionsSet)

\* the store before the user's first visit: another user's row only
InitTables ==
  /\ card_progress = {otherUsersRow}
  /\ InitSession

\* the services on that store, the storage never failing
InitStore ==
  /\ budget = StoreGrades
  /\ InitTables

\* the same store, for the services under storage failures
InitFailing ==
  /\ budget = FailingGrades
  /\ card_progress \in StoredTables
  /\ InitSession

\* one gradeCardWithRating call per caller, free to interleave
InitInterleaved ==
  /\ budget = Cardinality(Callers)
  /\ card_progress \in GradedTables
  /\ InitSession

\* LazyCreateCalls calls of ensureProgressForDeck or getDueDecks, free to
\* interleave
InitLazyCreate ==
  /\ budget = MaxLazyCreateCalls
  /\ card_progress \in StoredTables
  /\ InitSession

\* one call of a helper of srsMath.js or learningSteps.js
InitHelper ==
  /\ budget = 1
  /\ card_progress = {}
  /\ InitSession

(***************************************************************************)
(* Actions.                                                                *)
(***************************************************************************)
\* one scheduleNextReview call with a rating of the set ratings; the row is
\* replaced by the returned values (gradeCardWithRating's update)
Call(ratings) ==
  /\ budget > 0
  /\ \E r \in ratings, d \in Elapsed, t \in Ticks :
       LET callNow == clock + d
           p == resolveProgress(progress)
           o == resolveDeckOptions(deckOptions)
           inReview == ~(p.state = CARD_STATE_NEW \/ p.state = CARD_STATE_LEARNING)
       IN  /\ callNow <= MaxClock
           /\ \E k \in (IF fuzzIsDrawn(p, r, o) THEN RandDraws ELSE {NoDraw}) :
                /\ progress' = scheduleNextReview(progress, r, deckOptions,
                                                  callNow, callNow + t, k, tz)
                /\ rand' = k
           /\ clock' = callNow + t
           /\ rating' = r
           /\ now' = callNow
           /\ baseInterval' =
                IF inReview /\ r # RATING_AGAIN
                THEN roundedBaseInterval(p, r, o,
                                         calculateNewEaseFactor(p.ease_factor, r))
                ELSE 0
           /\ lapseCount' = IF inReview /\ r = RATING_AGAIN
                            THEN lapseCount + 1 ELSE lapseCount
           /\ streak' = IF inReview /\ r = RATING_AGAIN THEN 0
                        ELSE IF inReview \/ r \in {RATING_GOOD, RATING_EASY}
                          THEN streak + 1
                        ELSE streak
  /\ before' = progress
  /\ outcome' = "returned"
  /\ budget' = budget - 1
  /\ UNCHANGED <<tz, deckOptions, preview, storeVars, grading,
                 page, localStorage, creating>>

Grade == Call(Ratings)

\* one previewNextIntervals call on the stored row
Preview ==
  /\ preview' = previewNextIntervals(progress, deckOptions)
  /\ before' = progress
  /\ outcome' = "previewed"
  /\ UNCHANGED <<progress, clock, tz, deckOptions, budget, rating, now,
                 baseInterval, rand, lapseCount, streak, storeVars, grading,
                 page, localStorage, creating>>

GradeUnrecognized == Call(UnrecognizedRatings)

Next == Grade

\* the cards of the deck without a row of the user
missingCards(deckId) ==
  cardIdsOf({deckId})
    \ {r.card_id : r \in selectProgress(card_progress, userId, cardIdsOf({deckId}))}

\* time passes between two service calls
Advance ==
  /\ \E d \in StoreElapsed :
       /\ clock + d <= FirstInstant + 2 * StoreAdvances
       /\ clock' = clock + d
  /\ UNCHANGED <<progress, tz, deckOptions, budget, outcome, before, rating, now,
                 baseInterval, rand, lapseCount, streak, preview, storeVars, grading,
                 page, localStorage, creating>>

\* The service actions take the sets of failures the storage may produce.
EnsureProgressForDeck(failures) ==
  /\ \E deckId \in DeckIds, fails \in failures :
       LET call == ensureProgressForDeck(card_progress, userId, deckId, clock, fails)
       IN  /\ card_progress' = call.table
           /\ result' = [op |-> "ensureProgressForDeck", deckId |-> deckId,
                         nowUTC |-> clock] @@ call.ret
  /\ UNCHANGED <<schedulerVars, preview, grading,
                 page, localStorage, creating>>

GetDueCards(failures) ==
  /\ \E deckId \in DeckIds, fails \in failures :
       \E progressRows \in orderByDueAt(dueProgress(card_progress, userId,
                                                     cardIdsOf({deckId}), clock)) :
         result' = [op |-> "getDueCards", deckId |-> deckId, nowUTC |-> clock,
                    missing |-> missingCards(deckId), created |-> {}]
                   @@ getDueCards(card_progress, userId, deckId, clock, fails,
                                  progressRows)
  /\ UNCHANGED <<schedulerVars, preview, card_progress, grading,
                 page, localStorage, creating>>

\* StudyPage mounted on a deck and its loadStudySession: the saved session
\* is read, then ensureProgressForDeck, its result dropped, then getDueCards
\* with the same nowUTC, then the queue is built, resumed or new
LoadStudySession(ensureFailures, dueFailures) ==
  /\ \E deckId \in DeckIds, ensureFails \in ensureFailures,
        dueFails \in dueFailures :
       LET ensured == ensureProgressForDeck(card_progress, userId, deckId, clock,
                                            ensureFails)
       IN  \E progressRows \in orderByDueAt(dueProgress(ensured.table, userId,
                                                         cardIdsOf({deckId}), clock)) :
             LET due == getDueCards(ensured.table, userId, deckId, clock, dueFails,
                                    progressRows)
             IN  /\ card_progress' = ensured.table
                 /\ result' = [op |-> "loadStudySession", deckId |-> deckId,
                               nowUTC |-> clock,
                               data |-> due.data,
                               error |-> IF due.error = <<>> THEN <<>>
                                         ELSE <<FailedToLoadCards>>,
                               raised |-> ensured.ret.raised \cup due.raised,
                               missing |-> missingCards(deckId),
                               created |-> ensured.ret.created]
                 /\ IF due.error # <<>>
                    THEN /\ page' = [deckId |-> <<deckId>>, queue |-> <<>>,
                                     currentIndex |-> 0, completed |-> FALSE,
                                     error |-> <<FailedToLoadCards>>]
                         /\ localStorage'
                              = loadSession(localStorage, deckId, clock).storage
                    ELSE \E loaded \in {loadedSession(deckId, localStorage,
                                                      due.data[1], clock)} :
                           /\ page' = loaded.page
                           /\ localStorage' = loaded.storage
  /\ UNCHANGED <<schedulerVars, preview, grading, creating>>

\* StudyPage handleGrade on the card shown: gradeCardWithRating with the
\* page's deck, then the queue is refreshed or moved on; every query of the
\* handler reads the clock as it is after the grading
HandleGrade ==
  /\ budget > 0
  /\ page.deckId # <<>>
  /\ ~page.completed
  /\ page.error = <<>>
  /\ page.currentIndex < Len(page.queue)
  /\ \E r \in Ratings, cardId \in {page.queue[page.currentIndex + 1].card.id} :
       \E k \in gradeDraws(card_progress, userId, cardId, r, page.deckId, {}) :
         \E call \in {gradeCardWithRating(card_progress, userId, cardId, r,
                                          page.deckId, {}, clock, clock, k, tz)} :
           \E cardIds \in {cardIdsOf({page.deckId[1]})} :
             \E dueRows \in orderByDueAt(dueProgress(call.table, userId, cardIds,
                                                      clock)),
                subDayRows \in orderByDueAt(subDayProgress(call.table, userId,
                                                           cardIds, clock)),
                learningRows \in orderByDueAt(learningProgress(call.table, userId,
                                                               cardIds)) :
               \E graded \in {gradedSession(page, r, localStorage,
                                            Array_sort(toPairs(dueRows)),
                                            toPairs(subDayRows),
                                            toPairs(learningRows), clock)} :
                 /\ card_progress' = call.table
                 /\ result' = [op |-> "handleGrade", cardId |-> cardId,
                               rating |-> r, deckId |-> page.deckId] @@ call.ret
                 /\ page' = graded.page
                 /\ localStorage' = graded.storage
  /\ budget' = budget - 1
  /\ UNCHANGED <<progress, clock, tz, deckOptions, outcome, before, rating, now,
                 baseInterval, rand, lapseCount, streak, preview, grading, creating>>

GetAllLearningCards(failures) ==
  /\ \E deckId \in DeckIds, fails \in failures :
       \E progressRows \in orderByDueAt(learningProgress(card_progress, userId,
                                                          cardIdsOf({deckId}))) :
         result' = [op |-> "getAllLearningCards", deckId |-> deckId]
                   @@ getLearningCards(deckId, fails, progressRows)
  /\ UNCHANGED <<schedulerVars, preview, card_progress, grading,
                 page, localStorage, creating>>

GetSubDayCards(failures) ==
  /\ \E deckId \in DeckIds, fails \in failures :
       \E progressRows \in orderByDueAt(subDayProgress(card_progress, userId,
                                                        cardIdsOf({deckId}), clock)) :
         result' = [op |-> "getSubDayCards", deckId |-> deckId, nowUTC |-> clock]
                   @@ getLearningCards(deckId, fails, progressRows)
  /\ UNCHANGED <<schedulerVars, preview, card_progress, grading,
                 page, localStorage, creating>>

GetDueDecks(failures) ==
  /\ \E fails \in failures :
       LET call == getDueDecks(card_progress, userId, clock, fails)
       IN  /\ card_progress' = call.table
           /\ result' = [op |-> "getDueDecks", nowUTC |-> clock] @@ call.ret
  /\ UNCHANGED <<schedulerVars, preview, grading,
                 page, localStorage, creating>>

GetNextDueAt(failures) ==
  /\ \E fails \in failures :
       \E rows \in orderByDueAt({r \in card_progress :
                                   r.user_id = userId /\ r.due_at > clock}) :
         result' = [op |-> "getNextDueAt", nowUTC |-> clock]
                   @@ getNextDueAt(fails, rows)
  /\ UNCHANGED <<schedulerVars, preview, card_progress, grading,
                 page, localStorage, creating>>

\* the caller passes the card's deck (StudyPage handleGrade) or, with
\* anyDeckId, no deck
GradeCardWithRating(failures, anyDeckId) ==
  /\ budget > 0
  /\ \E cardId \in cardIdsOf(DeckIds), r \in Ratings, fails \in failures :
       \E deckId \in {<<cardMap(cardId).deck_id>>}
                       \cup (IF anyDeckId THEN {<<>>} ELSE {}) :
         \E k \in gradeDraws(card_progress, userId, cardId, r, deckId, fails) :
           \E call \in {gradeCardWithRating(card_progress, userId, cardId, r,
                                            deckId, fails, clock, clock, k, tz)} :
             /\ card_progress' = call.table
             /\ result' = [op |-> "gradeCardWithRating", cardId |-> cardId,
                           rating |-> r, deckId |-> deckId] @@ call.ret
             /\ budget' = IF call.ret.error = <<>> THEN budget - 1 ELSE budget
  /\ UNCHANGED <<progress, clock, tz, deckOptions, outcome, before, rating, now,
                 baseInterval, rand, lapseCount, streak, preview, grading,
                 page, localStorage, creating>>

\* gradeCardWithRating as its callers interleave: the call is suspended at
\* each await, so it is the three steps below.  The caller passes the deck
\* of the card (StudyPage handleGrade), and the storage does not fail.

\* the card the callers grade
GradedCard == "c1"

\* await ... .select('*').eq('user_id', ...).eq('card_id', ...).single()
FetchProgress(caller) ==
  /\ grading[caller].pc = "idle"
  /\ budget > 0
  /\ \E r \in Ratings, row \in selectProgress(card_progress, userId, {GradedCard}) :
       grading' = [grading EXCEPT ![caller] =
                     [pc |-> "fetched", cardId |-> GradedCard, rating |-> r,
                      progress |-> row]]
  /\ budget' = budget - 1
  /\ UNCHANGED <<progress, clock, tz, deckOptions, outcome, before, rating, now,
                 baseInterval, rand, lapseCount, streak, preview, storeVars,
                 page, localStorage, creating>>

\* await getDeckOptions(actualDeckId), then scheduleNextReview on the row
\* fetched before, with the clock as it is now
ScheduleFetched(caller) ==
  /\ grading[caller].pc = "fetched"
  /\ \E g \in {grading[caller]} :
       \E o \in {loadedDeckOptions(getDeckOptions(cardMap(g.cardId).deck_id, {}))} :
         \E k \in (IF fuzzIsDrawn(resolveProgress(g.progress), g.rating,
                                   resolveDeckOptions(o))
                    THEN RandDraws ELSE {NoDraw}) :
           grading' = [grading EXCEPT ![caller] =
                         [pc |-> "scheduled", cardId |-> g.cardId,
                          rating |-> g.rating, progress |-> g.progress,
                          newValues |-> scheduleNextReview(g.progress, g.rating, o,
                                                           clock, clock, k, tz)]]
  /\ UNCHANGED <<schedulerVars, preview, storeVars,
                 page, localStorage, creating>>

\* await ... .update(newValues).eq('id', progress.id).select().single(): the
\* storage replaces the columns of the row that has the fetched row's id,
\* in one statement, and the call returns the row as updated
UpdateFetched(caller) ==
  /\ grading[caller].pc = "scheduled"
  /\ \E g \in {grading[caller]} :
       \E row \in selectProgress(card_progress, g.progress.user_id,
                                  {g.progress.card_id}) :
         \E updated \in {updatedRow(row, g.newValues)} :
           /\ card_progress' = (card_progress \ {row}) \cup {updated}
           /\ result' = [op |-> "gradeCardWithRating", cardId |-> g.cardId,
                         rating |-> g.rating,
                         deckId |-> <<cardMap(g.cardId).deck_id>>,
                         caller |-> caller, data |-> <<updated>>, error |-> <<>>,
                         raised |-> {}, found |-> {g.progress}]
           /\ grading' = [grading EXCEPT ![caller] =
                           [pc |-> "done", cardId |-> g.cardId,
                            rating |-> g.rating, progress |-> g.progress,
                            newValues |-> g.newValues]]
  /\ UNCHANGED <<schedulerVars, preview,
                 page, localStorage, creating>>

Fetch == \E caller \in Callers : FetchProgress(caller)

Schedule == \E caller \in Callers : ScheduleFetched(caller)

Update == \E caller \in Callers : UpdateFetched(caller)

NextInterleaved ==
  \/ Advance
  \/ Fetch
  \/ Schedule
  \/ Update

\* ensureProgressForDeck and getDueDecks as concurrent calls interleave: a
\* call is suspended at each await, so it is the steps below.  The storage
\* fails in no other way than by the unique constraint.

\* the call up to its await of the insert: the cards and the existing rows
\* are read and the batch of missing rows is built.  With nothing missing
\* ensureProgressForDeck returns and getDueDecks goes on to its due query.
ReadExisting(caller) ==
  /\ creating[caller].pc = "idle"
  /\ budget > 0
  /\ \E call \in LazyCreateCalls :
       \E cardIds \in {cardIdsOf(IF call.deckId = <<>> THEN DeckIds
                                  ELSE {call.deckId[1]})} :
         \E missing \in {missingProgress(card_progress, userId, cardIds)} :
           IF missing # {}
           THEN /\ creating' = [creating EXCEPT ![caller] =
                                  [pc |-> "read", call |-> call, nowUTC |-> clock,
                                   cardIds |-> cardIds,
                                   batch |-> newRows(userId, missing, clock)]]
                /\ UNCHANGED result
           ELSE IF call.op = "getDueDecks"
           THEN /\ creating' = [creating EXCEPT ![caller] =
                                  [pc |-> "inserted", call |-> call,
                                   nowUTC |-> clock, cardIds |-> cardIds,
                                   batch |-> {}, raised |-> {}]]
                /\ UNCHANGED result
           ELSE /\ result' = [op |-> call.op, deckId |-> call.deckId[1],
                              nowUTC |-> clock, caller |-> caller,
                              data |-> <<cardIds>>, error |-> <<>>, raised |-> {},
                              batch |-> {}]
                /\ UNCHANGED creating
  /\ budget' = budget - 1
  /\ UNCHANGED <<progress, clock, tz, deckOptions, outcome, before, rating, now,
                 baseInterval, rand, lapseCount, streak, preview, card_progress,
                 grading, page, localStorage>>

\* the insert of the batch: ensureProgressForDeck returns its error or the
\* card ids, getDueDecks logs the error and goes on
InsertMissing(caller) ==
  /\ creating[caller].pc = "read"
  /\ \E c \in {creating[caller]} :
       \E insert \in {insertRows(card_progress, c.batch)} :
         /\ card_progress' = insert.table
         /\ IF c.call.op = "getDueDecks"
            THEN /\ creating' = [creating EXCEPT ![caller] =
                                   [pc |-> "inserted", call |-> c.call,
                                    nowUTC |-> c.nowUTC, cardIds |-> c.cardIds,
                                    batch |-> c.batch,
                                    raised |-> {insert.error[i] :
                                                  i \in DOMAIN insert.error}]]
                 /\ UNCHANGED result
            ELSE /\ creating' = [creating EXCEPT ![caller] = [pc |-> "idle"]]
                 /\ result' = [op |-> c.call.op, deckId |-> c.call.deckId[1],
                               nowUTC |-> c.nowUTC, caller |-> caller,
                               data |-> IF insert.error = <<>>
                                        THEN <<c.cardIds>> ELSE <<>>,
                               error |-> insert.error,
                               raised |-> {insert.error[i] :
                                             i \in DOMAIN insert.error},
                               batch |-> c.batch]
  /\ UNCHANGED <<schedulerVars, preview, grading, page, localStorage>>

\* the due query of getDueDecks and its return
CountDue(caller) ==
  /\ creating[caller].pc = "inserted"
  /\ \E c \in {creating[caller]} :
       result' = [op |-> c.call.op, nowUTC |-> c.nowUTC, caller |-> caller,
                  data |-> <<countDueDecks(card_progress, userId, c.nowUTC)>>,
                  error |-> <<>>, raised |-> c.raised, batch |-> c.batch]
  /\ creating' = [creating EXCEPT ![caller] = [pc |-> "idle"]]
  /\ UNCHANGED <<schedulerVars, preview, card_progress, grading, page,
                 localStorage>>

Read == \E caller \in Callers : ReadExisting(caller)

Insert == \E caller \in Callers : InsertMissing(caller)

Count == \E caller \in Callers : CountDue(caller)

NextLazyCreate ==
  \/ Advance
  \/ Read
  \/ Insert
  \/ Count

\* one direct call of calculateNewEaseFactor
CalculateNewEaseFactor ==
  /\ budget > 0
  /\ \E easeFactor \in EaseInputs, r \in Ratings :
       result' = [op |-> "calculateNewEaseFactor", easeFactor |-> easeFactor,
                  rating |-> r,
                  data |-> <<calculateNewEaseFactor(easeFactor, r)>>,
                  error |-> <<>>]
  /\ budget' = budget - 1
  /\ UNCHANGED <<progress, clock, tz, deckOptions, outcome, before, rating, now,
                 baseInterval, rand, lapseCount, streak, preview, card_progress,
                 grading,
                 page, localStorage, creating>>

\* one direct call of applyFuzz; Math.random() is reached only past the
\* early return
ApplyFuzz ==
  /\ budget > 0
  /\ \E intervalDays \in WholeIntervals \cup OtherIntervals, disabled \in BOOLEAN :
       \E k \in (IF disabled \/ intervalDays < 200 THEN {NoDraw} ELSE AllDraws) :
         result' = [op |-> "applyFuzz", intervalDays |-> intervalDays,
                    disabled |-> disabled, rand |-> k,
                    data |-> <<applyFuzz(intervalDays, disabled, k)>>,
                    error |-> <<>>]
  /\ budget' = budget - 1
  /\ UNCHANGED <<progress, clock, tz, deckOptions, outcome, before, rating, now,
                 baseInterval, rand, lapseCount, streak, preview, card_progress,
                 grading,
                 page, localStorage, creating>>

NextMath == CalculateNewEaseFactor \/ ApplyFuzz

\* one direct call of parseLearningSteps
ParseLearningSteps ==
  /\ budget > 0
  /\ \E stepsStr \in StepsInputs :
       result' = [op |-> "parseLearningSteps", stepsStr |-> stepsStr,
                  data |-> <<parseLearningSteps(stepsStr)>>, error |-> <<>>]
  /\ budget' = budget - 1
  /\ UNCHANGED <<progress, clock, tz, deckOptions, outcome, before, rating, now,
                 baseInterval, rand, lapseCount, streak, preview, card_progress,
                 grading,
                 page, localStorage, creating>>

NextAnyRating == Grade \/ GradeUnrecognized

NextPreview == Grade \/ Preview

\* the storage never fails
NoFailure == {{}}

Ensure == EnsureProgressForDeck(NoFailure)

DueCards == GetDueCards(NoFailure)

AllLearningCards == GetAllLearningCards(NoFailure)

SubDayCards == GetSubDayCards(NoFailure)

DueDecks == GetDueDecks(NoFailure)

GradeCard == GradeCardWithRating(NoFailure, FALSE)

NextStore ==
  \/ Advance
  \/ Ensure
  \/ DueDecks
  \/ GradeCard
  \/ DueCards
  \/ AllLearningCards
  \/ SubDayCards

StudySession == LoadStudySession(NoFailure, NoFailure)

\* a study session of the signed-in user, the storage never failing
NextStudy ==
  \/ Advance
  \/ StudySession
  \/ HandleGrade

\* any storage call may fail
EnsureOrFail == EnsureProgressForDeck(EnsureFailures)

DueCardsOrFail == GetDueCards(ReadFailures)

StudySessionOrFail == LoadStudySession(EnsureFailures, ReadFailures)

AllLearningCardsOrFail == GetAllLearningCards(ReadFailures)

SubDayCardsOrFail == GetSubDayCards(ReadFailures)

DueDecksOrFail == GetDueDecks(DueDecksFailures)

NextDueAtOrFail == GetNextDueAt({{}, {"progress"}})

GradeCardOrFail == GradeCardWithRating(GradeFailures, TRUE)

NextFailing ==
  \/ EnsureOrFail
  \/ DueCardsOrFail
  \/ StudySessionOrFail
  \/ AllLearningCardsOrFail
  \/ SubDayCardsOrFail
  \/ DueDecksOrFail
  \/ NextDueAtOrFail
  \/ GradeCardOrFail

\* a lazily created row under any sequence of gradings
Spec == Init /\ [][Next]_vars

\* any row, graded once
SpecAny == InitAny /\ [][Next]_vars

\* any row, graded once with any rating value
SpecAnyRating == InitAny /\ [][NextAnyRating]_vars

\* any row, graded once under deck options that may hold negative fields
SpecAnyOptions == InitAnyOptions /\ [][Next]_vars

\* any row, previewed at any point and graded once
SpecPreview == InitAny /\ [][NextPreview]_vars

\* the services on the store of one user, the storage never failing
SpecStore == InitStore /\ [][NextStore]_vars

\* study sessions on the store of one user, the storage never failing
SpecStudy == InitStore /\ [][NextStudy]_vars

\* the services at one instant, any storage call failing
SpecFailing == InitFailing /\ [][NextFailing]_vars

\* the gradings of one card by two callers, interleaved at their awaits
SpecInterleaved == InitInterleaved /\ [][NextInterleaved]_vars

\* lazy-create calls of two callers, interleaved at their awaits
SpecLazyCreate == InitLazyCreate /\ [][NextLazyCreate]_vars

\* the helpers of srsMath.js, each called once on any argument
SpecMath == InitHelper /\ [][NextMath]_vars

\* parseLearningSteps called once on any text
SpecSteps == InitHelper /\ [][ParseLearningSteps]_vars

(***************************************************************************)
(* Properties.                                                             *)
(***************************************************************************)
LearningStates == {CARD_STATE_NEW, CARD_STATE_LEARNING}

\* the options the last call worked with
usedOptions == resolveDeckOptions(deckOptions)

\* C1: every record reachable from a lazily created record by gradings with
\* AGAIN, HARD, GOOD, EASY has an ease factor of at least 1.3 (Spec).
C1_EaseAtLeastMinimum == progress.ease_factor >= 130

\* C1 witness: a grading whose SM-2 sum fell below 1.3 and was floored.
C1_Witness ==
  /\ outcome = "returned"
  /\ before.state = CARD_STATE_REVIEW
  /\ rating = RATING_HARD
  /\ before.ease_factor - 32 < 130
  /\ progress.ease_factor = 130

\* C2: from NEW or LEARNING, GOOD returns REVIEW with interval 1 and one
\* repetition, EASY returns REVIEW with interval 4 and one repetition; the
\* ease is the SM-2 update of the previous ease (-0.14 for GOOD, +0.1 for
\* EASY, floored at 1.3), whatever the other fields and options (SpecAny).
C2_Graduation ==
  (outcome = "returned" /\ before.state \in LearningStates
     /\ rating \in {RATING_GOOD, RATING_EASY})
  => /\ progress.state = CARD_STATE_REVIEW
     /\ progress.repetitions = 1
     /\ progress.interval_days = (IF rating = RATING_GOOD THEN 1 ELSE 4)
     /\ LET sum == before.ease_factor + (IF rating = RATING_GOOD THEN -14 ELSE 10)
        IN  progress.ease_factor = (IF sum < 130 THEN 130 ELSE sum)

\* C2 witness: a LEARNING record that already had repetitions and a long
\* interval graduates by EASY.
C2_Witness ==
  /\ outcome = "returned"
  /\ before.state = CARD_STATE_LEARNING
  /\ before.repetitions = 3
  /\ before.interval_days = 40
  /\ rating = RATING_EASY
  /\ progress.state = CARD_STATE_REVIEW
  /\ progress.interval_days = 4

\* C3: AGAIN on a REVIEW record returns LEARNING, one more lapse, the ease
\* lowered by 0.2 but not below 1.3, step index 0, the interval reduced to
\* lapseIntervalPercent of the previous one (rounded, at least 1) and
\* dueAt = now + 2 minutes (SpecAny).
C3_Lapse ==
  (outcome = "returned" /\ before.state = CARD_STATE_REVIEW
     /\ rating = RATING_AGAIN)
  => /\ progress.state = CARD_STATE_LEARNING
     /\ progress.lapses = before.lapses + 1
     /\ progress.ease_factor
          = (IF before.ease_factor - 20 < 130 THEN 130 ELSE before.ease_factor - 20)
     /\ progress.learning_step_index = 0
     /\ LET reduced == (before.interval_days * usedOptions.lapseIntervalPercent + 50)
                         \div 100
        IN  progress.interval_days = (IF reduced < 1 THEN 1 ELSE reduced)
     /\ progress.due_at = now + 2
     /\ (before.ease_factor = 250 /\ before.interval_days = 10
           /\ usedOptions.lapseIntervalPercent = 10)
        => (progress.ease_factor = 230 /\ progress.interval_days = 1)

\* C3 witness: the worked example, ease 2.5, interval 10, repetitions 3,
\* lapseIntervalPercent 10.
C3_Witness ==
  /\ outcome = "returned"
  /\ before.state = CARD_STATE_REVIEW
  /\ before.ease_factor = 250
  /\ before.interval_days = 10
  /\ before.repetitions = 3
  /\ before.lapses = 0
  /\ usedOptions.lapseIntervalPercent = 10
  /\ rating = RATING_AGAIN
  /\ progress.state = CARD_STATE_LEARNING
  /\ progress.lapses = 1
  /\ progress.ease_factor = 230
  /\ progress.interval_days = 1

SuccessRatings == {RATING_HARD, RATING_GOOD, RATING_EASY}

\* the last call was a successful review: HARD, GOOD or EASY on a REVIEW record
SuccessfulReviewReturned ==
  /\ outcome = "returned"
  /\ before.state = CARD_STATE_REVIEW
  /\ rating \in SuccessRatings

\* C4: GOOD on a REVIEW record with intervalModifier 1: the rounded base
\* interval handed to the fuzz is 1 when the record had 0 repetitions, 6
\* when it had 1, and round(intervalDays x new ease) when it had 2 or more;
\* the count tested is the one before the increment (SpecAny).
C4_GoodBaseInterval ==
  (outcome = "returned" /\ before.state = CARD_STATE_REVIEW
     /\ rating = RATING_GOOD /\ usedOptions.intervalModifier = 100)
  => /\ progress.repetitions = before.repetitions + 1
     /\ before.repetitions = 0 => baseInterval = 1
     /\ before.repetitions = 1 => baseInterval = 6
     /\ before.repetitions >= 2
          => baseInterval
               = (before.interval_days * progress.ease_factor + 50) \div 100

\* C4 witness: a record with one repetition and interval 40 gets base 6.
C4_Witness ==
  /\ outcome = "returned"
  /\ before.state = CARD_STATE_REVIEW
  /\ rating = RATING_GOOD
  /\ usedOptions.intervalModifier = 100
  /\ before.repetitions = 1
  /\ before.interval_days = 40
  /\ baseInterval = 6
  /\ progress.repetitions = 2

C6_AsStated ==
  outcome = "returned" => progress.ease_factor >= 130

\* C6 amended: the returned ease is at least 1.3 in every transition that
\* recomputes it (GOOD and EASY from NEW or LEARNING, every rating in
\* REVIEW), also from a starting ease below 1.3; AGAIN and HARD in NEW or
\* LEARNING return the starting ease unchanged (SpecAny).
C6_EaseFlooredWhenRecomputed ==
  outcome = "returned"
  => IF before.state \in LearningStates /\ rating \in {RATING_AGAIN, RATING_HARD}
     THEN progress.ease_factor = before.ease_factor
     ELSE progress.ease_factor >= 130

\* C6 witness: a lapse from a starting ease below 1.3 returns 1.3.
C6_Witness ==
  /\ outcome = "returned"
  /\ before.state = CARD_STATE_REVIEW
  /\ before.ease_factor = 100
  /\ rating = RATING_AGAIN
  /\ progress.ease_factor = 130

\* calendar day, in the local zone, of an instant
LocalDay(t) == (t + tz) \div MinutesPerDay

\* the instant at which calendar day d starts in the local zone
LocalMidnightOfDay(d) == d * MinutesPerDay - tz

\* the last call applied GOOD with default options to a record as it is
\* lazily created
FirstGoodOnFreshRecord ==
  /\ outcome = "returned"
  /\ before.state = CARD_STATE_NEW
  /\ before.ease_factor = 250
  /\ before.interval_days = 0
  /\ before.repetitions = 0
  /\ before.lapses = 0
  /\ rating = RATING_GOOD
  /\ deckOptions = <<>>

C8_UnrecognizedRatingRejected ==
  (outcome # "none" /\ rating \notin Ratings)
  => (outcome = "InvalidRating" /\ progress = before)

ReviewPhaseTransitionReturned ==
  \/ SuccessfulReviewReturned
  \/ /\ outcome = "returned"
     /\ before.state \in LearningStates
     /\ rating \in {RATING_GOOD, RATING_EASY}

\* C10 as stated: every review-phase transition sets dueAt to local
\* midnight of the calendar day that is the returned intervalDays days
\* after the day of now (SpecAny).
C10_LocalMidnightOfTargetDay ==
  ReviewPhaseTransitionReturned
  => progress.due_at
       = LocalMidnightOfDay(LocalDay(now) + progress.interval_days)

\* the last call was a lapse: AGAIN on a REVIEW record
LapseReturned ==
  /\ outcome = "returned"
  /\ before.state = CARD_STATE_REVIEW
  /\ rating = RATING_AGAIN

\* C16: on a record that started lazily created, lapses equals the number of
\* AGAIN ratings applied while the state was REVIEW: a lapse adds exactly 1,
\* every other transition leaves it unchanged, so it never decreases (Spec).
C16_LapsesCountAgainInReview ==
  /\ progress.lapses = lapseCount
  /\ outcome = "returned"
       => progress.lapses = before.lapses + (IF LapseReturned THEN 1 ELSE 0)

\* C16 witness: a second lapse.
C16_Witness ==
  /\ LapseReturned
  /\ before.lapses = 1
  /\ progress.lapses = 2
  /\ lapseCount = 2

\* C17: repetitions equals the number of consecutive successful ratings
\* (graduations and HARD/GOOD/EASY reviews) given since the last lapse; in
\* particular the record a lapse returns has repetitions 0 (Spec).
C17_RepetitionsCountSinceLapse ==
  /\ progress.repetitions = streak
  /\ LapseReturned => progress.repetitions = 0

\* a previewNextIntervals call has just returned
Previewed == outcome = "previewed"

\* what scheduleNextReview with fuzz disabled makes of the previewed record,
\* as minutes until due: the learning step, or 1440 times the stored
\* interval_days of a graduation or a successful review
scheduledMinutes(r) ==
  LET p == resolveProgress(before)
      o == usedOptions
  IN  IF p.state \in LearningStates
      THEN CASE r = RATING_AGAIN -> 2
             [] r = RATING_HARD -> 10
             [] r = RATING_GOOD -> 1 * 1440
             [] r = RATING_EASY -> 4 * 1440
      ELSE IF r = RATING_AGAIN THEN 2
           ELSE 1440 * newIntervalDays(p, r, o, TRUE, NoDraw)

\* C11: previewNextIntervals agrees with scheduleNextReview run with fuzz
\* disabled on the same record and options: 2, 10, 1440 and 5760 minutes in
\* NEW/LEARNING; in REVIEW 2 minutes for AGAIN and 1440 times the
\* interval_days the scheduler would store for HARD, GOOD and EASY; and the
\* record is left unchanged.
C11_PreviewAgreesWithScheduler ==
  Previewed =>
    /\ progress = before
    /\ preview.again = scheduledMinutes(RATING_AGAIN)
    /\ preview.hard = scheduledMinutes(RATING_HARD)
    /\ preview.good = scheduledMinutes(RATING_GOOD)
    /\ preview.easy = scheduledMinutes(RATING_EASY)

\* deck options that differ from opts in learningSteps only
withLearningSteps(opts, ls) ==
  [f \in DOMAIN opts \cup {"learningSteps"} |->
     IF f = "learningSteps" THEN ls ELSE opts[f]]

\* learningSteps texts: empty, the default, one step, several steps with
\* blanks, upper case and a fraction, and nothing that parses
LearningStepsInputs ==
  { <<>>,
    DefaultLearningSteps,
    <<"5", "m">>,
    <<"1", "m", ",", " ", "3", "D">>,
    <<"0", ".", "5", "h", ",", "2", "d">>,
    <<"a", "b", "c", ",", "-", "1">> }

Returned(op) == result.op = op /\ result.error = <<>>

\* the entries of a returned list
Entries(list) == {list[i] : i \in DOMAIN list}

\* the (card, progress) pairs of the user's rows in rows
pairsOf(rows) == {[card |-> cardMap(r.card_id), progress |-> r] : r \in rows}

\* the user's rows for the cards of a deck, read off the two tables
rowsOfDeck(deckId) ==
  {r \in card_progress :
     /\ r.user_id = userId
     /\ \E c \in cards : c.id = r.card_id /\ c.deck_id = deckId}

\* C13: getDueCards(user, deck, now) returns exactly the (card, progress)
\* pairs of that user and deck with due_at <= now, every LEARNING pair
\* before every other pair, and the pairs of one group in ascending due_at
\* order (SpecStore).
C13_DueCardsContentAndOrder ==
  Returned("getDueCards") =>
    LET data == result.data[1]
        expected == pairsOf({r \in rowsOfDeck(result.deckId) :
                               r.due_at <= result.nowUTC})
        isLearning(i) == data[i].progress.state = CARD_STATE_LEARNING
    IN  /\ Entries(data) = expected
        /\ Len(data) = Cardinality(expected)
        /\ \A i, j \in DOMAIN data :
             i < j =>
               /\ isLearning(j) => isLearning(i)
               /\ (isLearning(i) <=> isLearning(j))
                    => data[i].progress.due_at <= data[j].progress.due_at

\* C13 witness: a LEARNING pair precedes the NEW pair of the same deck that
\* is due earlier; the rows of the other deck and of the other user, all
\* due, are not returned.
C13_Witness ==
  /\ Returned("getDueCards")
  /\ result.deckId = "d1"
  /\ Len(result.data[1]) = 2
  /\ result.data[1][1].progress.state = CARD_STATE_LEARNING
  /\ result.data[1][2].progress.state = CARD_STATE_NEW
  /\ result.data[1][1].progress.due_at > result.data[1][2].progress.due_at
  /\ otherUsersRow \in card_progress
  /\ \E r \in card_progress : r.card_id = "c3" /\ r.due_at <= result.nowUTC

\* the service calls that are due-set queries of one deck
DeckDueQueries == {"getDueCards", "loadStudySession"}

\* C14: a due-set query creates the missing progress rows before it
\* computes its result: after getDueCards(user, deck, now), alone or behind
\* the ensureProgressForDeck call of a study session, returns successfully,
\* every card of the deck has exactly one row of the user, the rows created
\* are NEW and due at now, and a card that had no row before the call is in
\* the returned due set (SpecFailing).
C14_DueQueryCreatesMissingRows ==
  (result.op \in DeckDueQueries /\ result.error = <<>>) =>
    /\ \A c \in cardIdsOf({result.deckId}) :
         Cardinality(selectProgress(card_progress, userId, {c})) = 1
    /\ \A c \in result.created :
         \E r \in selectProgress(card_progress, userId, {c}) :
           r.state = CARD_STATE_NEW /\ r.due_at = result.nowUTC
    /\ \A c \in result.missing :
         \E pair \in Entries(result.data[1]) : pair.card.id = c

\* the instants a query may be made at
Instants == FirstInstant..(FirstInstant + 2 * StoreAdvances + LEARNING_INTERVALS_HARD)

\* C15: over one store, getAllLearningCards returns every LEARNING card of
\* the deck whatever its due_at, getSubDayCards exactly the LEARNING cards
\* with due_at > now, and for every now each LEARNING card is in exactly one
\* of getSubDayCards and getDueCards: getAllLearningCards is the disjoint
\* union of getSubDayCards and the LEARNING pairs of getDueCards (SpecStore).
C15_LearningCardsPartition ==
  /\ Returned("getSubDayCards") =>
       Entries(result.data[1])
         = pairsOf({r \in rowsOfDeck(result.deckId) :
                      r.state = CARD_STATE_LEARNING /\ r.due_at > result.nowUTC})
  /\ Returned("getAllLearningCards") =>
       LET all == Entries(result.data[1])
           cardIds == cardIdsOf({result.deckId})
       IN  /\ all = pairsOf({r \in rowsOfDeck(result.deckId) :
                               r.state = CARD_STATE_LEARNING})
           /\ \A n \in Instants :
                LET subDay == pairsOf(subDayProgress(card_progress, userId,
                                                     cardIds, n))
                    due == pairsOf(dueProgress(card_progress, userId, cardIds, n))
                    dueLearning == {pair \in due :
                                      pair.progress.state = CARD_STATE_LEARNING}
                IN  /\ all = subDay \cup dueLearning
                    /\ subDay \cap due = {}

\* C15 witness: getAllLearningCards returns two cards, one that getDueCards
\* returns at this instant (due exactly now) and one that getSubDayCards
\* returns.
C15_Witness ==
  /\ Returned("getAllLearningCards")
  /\ Len(result.data[1]) = 2
  /\ \E pair \in Entries(result.data[1]) : pair.progress.due_at = clock
  /\ \E pair \in Entries(result.data[1]) : pair.progress.due_at > clock

\* C18: every stored row whose state is NEW has repetitions 0 and
\* interval_days 0, in every state of the store reachable by lazy creation
\* and grading with AGAIN, HARD, GOOD, EASY (SpecStore).
C18_NewRowsAreUntouched ==
  \A r \in card_progress :
    r.state = CARD_STATE_NEW => (r.repetitions = 0 /\ r.interval_days = 0)

\* C18 witness: a lazily created row that is still NEW next to a row of
\* the same deck that has been graded.
C18_Witness ==
  /\ Returned("gradeCardWithRating")
  /\ \E r \in rowsOfDeck("d1") : r.state = CARD_STATE_NEW
  /\ \E r \in rowsOfDeck("d1") : r.state = CARD_STATE_REVIEW

\* the errors of gradeCardWithRating's storage reads
GradeReadErrors ==
  {StorageError("progress"), singleError, StorageError("card"),
   StorageError("options")}

\* C19: in gradeCardWithRating a failure of any storage read or write (the
\* progress lookup, the card lookup, the deck-options lookup, the progress
\* update) is returned to the caller as the error, with data null, and
\* when a read fails the progress row is left unchanged (SpecFailing).
C19_EveryFailureReturned ==
  (result.op = "gradeCardWithRating" /\ result.raised # {}) =>
    /\ result.error # <<>>
    /\ result.error[1] \in result.raised
    /\ result.data = <<>>
    /\ (result.raised \cap GradeReadErrors # {})
         => selectProgress(card_progress, userId, {result.cardId}) = result.found

\* the due-set queries
DueSetQueries ==
  {"getDueCards", "getAllLearningCards", "getSubDayCards", "getDueDecks",
   "getNextDueAt"}

\* C20: each due-set query returns a result set or the storage error
\* unchanged: whenever a storage call made inside the query fails, the
\* lazy-create insert of getDueDecks included, the query returns that error
\* and no result set (SpecFailing).
C20_QueriesReturnStorageError ==
  (result.op \in DueSetQueries /\ result.raised # {}) =>
    /\ result.error # <<>>
    /\ result.error[1] \in result.raised
    /\ result.data = <<>>

\* C21: an ensureProgressForDeck call that succeeds inserts one NEW row, due
\* at its nowUTC, for exactly the deck's cards that had no row of the user,
\* and leaves every existing row as it was; a call that fails inserts
\* nothing, so the successful call after an insert failure inserts the rows
\* still missing; a call made when no row is missing leaves the table
\* unchanged (SpecFailing).
C21_EnsureInsertsExactlyMissing ==
  [][result'.op = "ensureProgressForDeck" =>
       LET missingBefore == missingCards(result'.deckId)
       IN  /\ result'.error = <<>> =>
                /\ card_progress \subseteq card_progress'
                /\ card_progress' \ card_progress
                     = {[user_id |-> userId, card_id |-> c, repetitions |-> 0,
                         ease_factor |-> 250, interval_days |-> 0,
                         due_at |-> result'.nowUTC, state |-> CARD_STATE_NEW,
                         lapses |-> 0, learning_step_index |-> 0] :
                          c \in missingBefore}
           /\ result'.error # <<>> => card_progress' = card_progress
           /\ missingBefore = {} =>
                (card_progress' = card_progress /\ result'.error
                   \in {<<>>, <<StorageError("cards")>>, <<StorageError("progress")>>})
  ]_vars

\* C21 witness: a call that found the row of c1 and none for c2 has
\* inserted the row of c2 only; the row of c1 is as it was.
C21_Witness ==
  /\ Returned("ensureProgressForDeck")
  /\ result.deckId = "d1"
  /\ result.missing = {"c2"}
  /\ result.created = {"c2"}
  /\ usersRow \in card_progress
  /\ Cardinality(rowsOfDeck("d1")) = 2

\* every caller's gradeCardWithRating call has returned
AllGraded == \A caller \in Callers : grading[caller].pc = "done"

\* the row stored for the graded card is what caller's scheduleNextReview
\* returned, whole
StoredIsOutputOf(caller) ==
  selectProgress(card_progress, userId, {GradedCard})
    = {[user_id |-> userId, card_id |-> GradedCard] @@ grading[caller].newValues}

\* C22: when two gradeCardWithRating calls for the same (user, card)
\* interleave, the row stored after both have returned is the complete
\* output of scheduleNextReview of one of the two calls, the one whose
\* update the storage applied last, never a field-wise mixture of the two
\* outputs (SpecInterleaved).
C22_OneWriterWins ==
  AllGraded =>
    /\ \E caller \in Callers : StoredIsOutputOf(caller)
    /\ StoredIsOutputOf(result.caller)

\* C22 witness: both calls fetched the same row, so neither saw the other's
\* update; their outputs differ in state and in due_at, and the stored row
\* is the output of the call that wrote last.
C22_Witness ==
  /\ AllGraded
  /\ grading[1].progress = grading[2].progress
  /\ grading[1].newValues.state # grading[2].newValues.state
  /\ grading[1].newValues.due_at > grading[2].newValues.due_at
  /\ result.caller = 2
  /\ StoredIsOutputOf(2)
  /\ ~StoredIsOutputOf(1)

\* C23: calculateNewEaseFactor is monotone in the rating: for every starting
\* ease the result is the ease plus -0.8 (AGAIN), -0.32 (HARD), -0.14 (GOOD)
\* or +0.1 (EASY), floored at 1.3, and the result for a rating is never
\* below the result for a lower rating (SpecMath).
C23_EaseMonotoneInRating ==
  Returned("calculateNewEaseFactor") =>
    LET delta == CASE result.rating = RATING_AGAIN -> -80
                   [] result.rating = RATING_HARD -> -32
                   [] result.rating = RATING_GOOD -> -14
                   [] result.rating = RATING_EASY -> 10
        sum == result.easeFactor + delta
    IN  /\ result.data[1] = (IF sum < 130 THEN 130 ELSE sum)
        /\ \A lower \in Ratings :
             lower < result.rating
               => calculateNewEaseFactor(result.easeFactor, lower) <= result.data[1]

\* C23 witness: from ease 1.5 GOOD gives 1.36, above the floor, while HARD
\* and AGAIN are both held at 1.3.
C23_Witness ==
  /\ Returned("calculateNewEaseFactor")
  /\ result.easeFactor = 150
  /\ result.rating = RATING_GOOD
  /\ result.data = <<136>>
  /\ calculateNewEaseFactor(150, RATING_HARD) = 130
  /\ calculateNewEaseFactor(150, RATING_AGAIN) = 130

\* the number a token parses to (thousandths), <<>> when it parses to NaN
tokenNumber(token) == parseFloat(trim(token))

\* a token that parses to a number above 0
validToken(token) == tokenNumber(token) # <<>> /\ tokenNumber(token)[1] > 0

\* minutes per unit of the token's suffix, read off its last character
tokenUnit(token) ==
  LET t == trim(token)
  IN  IF t # <<>> /\ t[Len(t)] \in {"d", "D"} THEN 1440
      ELSE IF t # <<>> /\ t[Len(t)] \in {"h", "H"} THEN 60
      ELSE 1

\* the valid tokens of a list of tokens, converted, in their order
RECURSIVE validSteps(_)
validSteps(tokens) ==
  IF tokens = <<>> THEN <<>>
  ELSE (IF validToken(Head(tokens))
        THEN <<tokenNumber(Head(tokens))[1] * tokenUnit(Head(tokens))>>
        ELSE <<>>)
       \o validSteps(Tail(tokens))

\* C24: parseLearningSteps always returns a non-empty sequence of positive
\* minute durations: [10, 1440] for an empty or absent input and for an input
\* none of whose comma-separated tokens parses to a number above 0;
\* otherwise the valid tokens in input order, times 1440 with suffix d,
\* times 60 with suffix h, times 1 with suffix m or none (SpecSteps).
\* Durations are in thousandths of a minute.
C24_StepsParsedOrDefault ==
  Returned("parseLearningSteps") =>
    LET data == result.data[1]
        expected == validSteps(split(result.stepsStr))
    IN  /\ Len(data) > 0
        /\ \A i \in DOMAIN data : data[i] > 0
        /\ (result.stepsStr = <<>> \/ expected = <<>>) => data = <<10000, 1440000>>
        /\ (result.stepsStr # <<>> /\ expected # <<>>) => data = expected
        /\ result.stepsStr = <<"a", "b", "c", ",", "-", "1", ",", "0">>
             => data = <<10000, 1440000>>

\* C24 witness: '0.5H,x,2d,15' gives 30, 2880 and 15 minutes, the invalid
\* token dropped and the order kept.
C24_Witness ==
  /\ Returned("parseLearningSteps")
  /\ result.stepsStr = <<"0", ".", "5", "H", ",", "x", ",", "2", "d", ",", "1", "5">>
  /\ result.data[1] = <<30000, 2880000, 15000>>

\* C25: applyFuzz with disabled = true returns its input rounded to the
\* nearest integer, for all inputs, the inputs below 2 that are not whole
\* included; on whole numbers it is the identity (SpecMath).  Values are in
\* hundredths of a day.
C25_DisabledFuzzRounds ==
  (Returned("applyFuzz") /\ result.disabled) =>
    /\ result.data[1] = 100 * MathRound(result.intervalDays, 100)
    /\ result.intervalDays % 100 = 0 => result.data[1] = result.intervalDays

\* the whole number of days by which applyFuzz may move an interval of days
\* days: its fuzz range, rounded
roundedFuzzRange(days) ==
  IF days < 7 THEN MathRound(MathMin(100, 15 * days), 100)
  ELSE IF days < 30 THEN MathRound(5 * days, 100)
  ELSE MathRound(10 * days, 100)

\* C26: for every whole interval of at least one day and every random draw,
\* applyFuzz returns a whole number of days that is at least 1 and differs
\* from the interval by at most the rounded fuzz range: the rounding of
\* min(1, 15%) below 7 days, so at most 1 day, of 5% from 7 to 29 days and of
\* 10% from 30 days on; an interval below 2 is returned unchanged (SpecMath).
C26_FuzzStaysInRange ==
  (Returned("applyFuzz") /\ result.intervalDays \in WholeIntervals) =>
    LET days == result.intervalDays \div 100
        fuzzed == result.data[1] \div 100
        moved == IF fuzzed >= days THEN fuzzed - days ELSE days - fuzzed
    IN  /\ result.data[1] % 100 = 0
        /\ fuzzed >= 1
        /\ moved <= roundedFuzzRange(days)
        /\ days < 7 => moved <= 1
        /\ days < 2 => fuzzed = days

\* C26 witness: 11 days with the lowest draw: 11 - 0.55 rounds to 10, one
\* day off, the rounded 5% range.
C26_Witness ==
  /\ Returned("applyFuzz")
  /\ ~result.disabled
  /\ result.intervalDays = 1100
  /\ result.rand = 0
  /\ result.data = <<1000>>

\* the deck options with every negative field taken out, so that the field's
\* default stands in for it and the other fields keep their values
withoutNegativeFields(opts) ==
  [f \in {g \in DOMAIN opts : opts[g] >= 0} |-> opts[f]]

\* C27: deck option defaulting is per field and permissive: a field that is
\* absent or negative is replaced by that field's default (easyBonus 1.3,
\* hardIntervalFactor 1.2, lapseIntervalPercent 10, intervalModifier 1.0,
\* maxIntervalDays 36500), so scheduleNextReview returns the record it
\* returns with the default in that field and the other fields as supplied,
\* for some draw of the fuzz (SpecAnyOptions).
C27_NegativeOptionsDefaulted ==
  outcome = "returned" =>
    LET defaulted == withoutNegativeFields(deckOptions)
        draws == IF fuzzIsDrawn(resolveProgress(before), rating,
                                resolveDeckOptions(defaulted))
                 THEN RandDraws ELSE {NoDraw}
    IN  /\ \A f \in DOMAIN deckOptions \ DOMAIN defaulted :
             resolveDeckOptions(defaulted)[f] = resolveDeckOptions(<<>>)[f]
        /\ \E k \in draws :
             progress = scheduleNextReview(before, rating, defaulted, now, clock,
                                           k, tz)

\* C28: a scheduling call uses one instant for everything it computes: in a
\* review-phase transition last_reviewed_at is the instant read at the top
\* of the call and due_at is local midnight of the calendar day of that
\* instant plus interval_days, also when the wall clock passes local
\* midnight while the call is running (SpecAny).
C28_OneInstantPerCall ==
  ReviewPhaseTransitionReturned
  => /\ progress.last_reviewed_at = now
     /\ progress.due_at
          = LocalMidnightOfDay(LocalDay(progress.last_reviewed_at)
                                 + progress.interval_days)

\* the user's LEARNING rows for the cards of a deck
learningRowsOf(deckId) == {r \in rowsOfDeck(deckId) : r.state = CARD_STATE_LEARNING}

\* C29: a study session on a deck is never marked completed while some card
\* of that deck is in LEARNING state for the user, whatever that card's
\* due_at: when the session is loaded or resumed and after every grading,
\* for every sequence of ratings (SpecStudy).
C29_NotCompletedWhileLearning ==
  page.completed => learningRowsOf(page.deckId[1]) = {}

\* C30: HARD, GOOD or EASY on a REVIEW record: repetitions goes up by
\* exactly 1, state stays REVIEW, lapses and learning_step_index are
\* unchanged; the base interval is interval_days x hardIntervalFactor for
\* HARD whatever the repetitions and the ease, and the base of the GOOD rule
\* (1, 6 or interval_days x new ease, by 0, 1 or more repetitions) x
\* easyBonus for EASY; the base is multiplied by intervalModifier, rounded,
\* fuzzed and clamped to 1..maxIntervalDays, the floor at 1 deciding when
\* maxIntervalDays is below 1 (SpecAny).  Bases are in millionths of a day.
C30_SuccessfulReview ==
  SuccessfulReviewReturned =>
    LET goodRule == IF before.repetitions = 0 THEN 100
                    ELSE IF before.repetitions = 1 THEN 600
                    ELSE before.interval_days * progress.ease_factor
        base == CASE rating = RATING_HARD ->
                       before.interval_days * usedOptions.hardIntervalFactor * 100
                  [] rating = RATING_EASY -> goodRule * usedOptions.easyBonus
                  [] rating = RATING_GOOD -> goodRule * 100
        rounded == (base * usedOptions.intervalModifier + 500000) \div 1000000
        fuzzed == applyFuzz(100 * rounded, FALSE, rand) \div 100
        max == usedOptions.maxIntervalDays
    IN  /\ progress.repetitions = before.repetitions + 1
        /\ progress.state = CARD_STATE_REVIEW
        /\ progress.lapses = before.lapses
        /\ progress.learning_step_index = before.learning_step_index
        /\ baseInterval = rounded
        /\ progress.interval_days
             = (IF fuzzed < 1 \/ max < 1 THEN 1
                ELSE IF fuzzed > max THEN max
                ELSE fuzzed)

\* C30 witness: EASY with default options on a record of 2 repetitions,
\* interval 10 and ease 2.5: 10 x 2.6 x 1.3 = 33.8, rounded to 34 and fuzzed
\* by the lowest draw to 31.
C30_Witness ==
  /\ SuccessfulReviewReturned
  /\ rating = RATING_EASY
  /\ deckOptions = <<>>
  /\ before.repetitions = 2
  /\ before.interval_days = 10
  /\ before.ease_factor = 250
  /\ baseInterval = 34
  /\ rand = 0
  /\ progress.interval_days = 31
  /\ progress.repetitions = 3

\* C31: on a NEW or LEARNING record AGAIN and HARD both return state
\* LEARNING and leave ease_factor, interval_days, repetitions and lapses
\* unchanged; AGAIN sets learning_step_index to 0, HARD leaves it unchanged
\* (SpecAny).
C31_LearningStepFrame ==
  (outcome = "returned" /\ before.state \in LearningStates
     /\ rating \in {RATING_AGAIN, RATING_HARD})
  => /\ progress.state = CARD_STATE_LEARNING
     /\ progress.ease_factor = before.ease_factor
     /\ progress.interval_days = before.interval_days
     /\ progress.repetitions = before.repetitions
     /\ progress.lapses = before.lapses
     /\ progress.learning_step_index
          = (IF rating = RATING_AGAIN THEN 0 ELSE before.learning_step_index)

\* C31 witness: HARD on a NEW record that carries an interval, repetitions,
\* a lapse and step index 1 returns LEARNING with all of them kept.
C31_Witness ==
  /\ outcome = "returned"
  /\ before.state = CARD_STATE_NEW
  /\ rating = RATING_HARD
  /\ before.learning_step_index = 1
  /\ before.interval_days = 40
  /\ before.repetitions = 3
  /\ before.lapses = 1
  /\ progress.state = CARD_STATE_LEARNING
  /\ progress.learning_step_index = 1
  /\ progress.interval_days = 40

\* the number of the deck's cards that are due for the user at nowUTC on the
\* table, a card without a row counting as due
dueCountAt(table, deckId, nowUTC) ==
  Cardinality({c \in cardIdsOf({deckId}) :
                 \A r \in selectProgress(table, userId, {c}) : r.due_at <= nowUTC})

\* the decks with a due card, in the order of the decks table, with counts
dueDecksAt(table, nowUTC) ==
  LET due == SelectSeq(decks, LAMBDA deck : dueCountAt(table, deck.id, nowUTC) > 0)
  IN  [i \in 1..Len(due) |->
         [id |-> due[i].id, dueCount |-> dueCountAt(table, due[i].id, nowUTC)]]

\* C32: a getDueDecks call that returns decks returns exactly the user's
\* decks with at least one card due at now on the table the call found, a
\* card without a progress row counting as due, each with the number of such
\* cards as dueCount, in the decks' updated_at descending order; a deck
\* without a due card is not returned (SpecFailing).
C32_DueDecksListed ==
  [][(result'.op = "getDueDecks" /\ result'.error = <<>>)
       => result'.data = << dueDecksAt(card_progress, result'.nowUTC) >>]_vars

\* C33: every REVIEW record reachable from a lazily created record by
\* gradings with AGAIN, HARD, GOOD, EASY has at least 1 repetition and an
\* interval of at least 1 day, so no successful review of a reachable record
\* takes the repetitions = 0 branch of the interval rule (Spec).
C33_ReviewRecordsHaveRepetitions ==
  /\ progress.state = CARD_STATE_REVIEW
       => (progress.repetitions >= 1 /\ progress.interval_days >= 1)
  /\ SuccessfulReviewReturned => before.repetitions # 0

\* C33 witness: a record that lapsed and graduated again is reviewed in its
\* first repetition, under options that cap the interval at 0 days.
C33_Witness ==
  /\ SuccessfulReviewReturned
  /\ lapseCount >= 1
  /\ before.repetitions = 1
  /\ usedOptions.maxIntervalDays = 0
  /\ progress.interval_days = 1
  /\ progress.repetitions = 2

\* C34: no grading returns a card to NEW: whatever the state of the record
\* and the rating among AGAIN, HARD, GOOD, EASY, the record returned by
\* scheduleNextReview is in state LEARNING or REVIEW, so from its first
\* grading on a card is never NEW again (Spec).
C34_NeverNewAgain ==
  outcome = "returned" => progress.state \in {CARD_STATE_LEARNING, CARD_STATE_REVIEW}

\* C34 witness: a card that was graded before lapses out of REVIEW and is
\* back in LEARNING, not in NEW.
C34_Witness ==
  /\ outcome = "returned"
  /\ before.state = CARD_STATE_REVIEW
  /\ rating = RATING_AGAIN
  /\ budget <= MaxCalls - 3
  /\ progress.state = CARD_STATE_LEARNING

\* the last call was a gradeCardWithRating call that succeeded
GradeSucceeded == result.op = "gradeCardWithRating" /\ result.error = <<>>

\* the row that call stored and returned, and the instant of the grading
gradedRow == result.data[1]

gradedAt == gradedRow.last_reviewed_at

\* the row is stored with a dueAt strictly later than the instant of the
\* grading, and the due selection of getDueCards at that instant leaves it out
StoredDueLater ==
  /\ gradedRow \in card_progress
  /\ gradedRow.due_at > gradedAt
  /\ gradedRow \notin dueProgress(card_progress, userId, cardIdsOf(DeckIds), gradedAt)

RelearningGraded ==
  /\ outcome = "returned"
  /\ lapseCount >= 1
  /\ before.state = CARD_STATE_LEARNING

\* C36: the reduced interval a lapse stores never determines a later due
\* date: after AGAIN in REVIEW, whatever ratings follow, the record is due 2
\* or 10 minutes after each AGAIN or HARD, and the next record in state
\* REVIEW has interval 1 (by GOOD) or 4 (by EASY), 1 repetition and is due at
\* the local midnight 1 or 4 days ahead, whatever lapseIntervalPercent and
\* the interval before the lapse were (Spec).
C36_LapseIntervalNeverUsed ==
  RelearningGraded
  => IF rating \in {RATING_AGAIN, RATING_HARD}
     THEN /\ progress.state = CARD_STATE_LEARNING
          /\ progress.due_at = now + (IF rating = RATING_AGAIN THEN 2 ELSE 10)
     ELSE /\ progress.state = CARD_STATE_REVIEW
          /\ progress.interval_days = (IF rating = RATING_GOOD THEN 1 ELSE 4)
          /\ progress.repetitions = 1
          /\ progress.due_at
               = LocalMidnightOfDay(LocalDay(clock) + progress.interval_days)

\* C36 witness: a record whose lapse stored the reduced interval 2 (half of
\* 4) graduates again by GOOD with interval 1.
C36_Witness ==
  /\ RelearningGraded
  /\ usedOptions.lapseIntervalPercent = 50
  /\ before.interval_days = 2
  /\ rating = RATING_GOOD
  /\ progress.state = CARD_STATE_REVIEW
  /\ progress.interval_days = 1
  /\ progress.repetitions = 1

\* the row of the graded card before the first of the calls: the row of
\* GradedTables that the call that fetched first read
firstFetched ==
  CHOOSE row \in {usersRow, reviewedRow} :
    \E caller \in Callers : grading[caller].progress = row

\* the rows caller's grading leaves when it runs alone on row, from its fetch
\* to its update, at the instant it read its now
gradedAlone(row, caller) ==
  LET o == loadedDeckOptions(getDeckOptions(cardMap(GradedCard).deck_id, {}))
      t == grading[caller].newValues.last_reviewed_at
      r == grading[caller].rating
      draws == IF fuzzIsDrawn(resolveProgress(row), r, resolveDeckOptions(o))
               THEN RandDraws ELSE {NoDraw}
  IN  {updatedRow(row, scheduleNextReview(row, r, o, t, t, k, tz)) : k \in draws}

\* the calls that rated AGAIN on a row they read in state REVIEW
lapsingCallers ==
  {caller \in Callers : /\ grading[caller].rating = RATING_AGAIN
                        /\ grading[caller].progress.state = CARD_STATE_REVIEW}

\* C37: interleaved gradings lose no update: when the gradeCardWithRating
\* calls of both callers on the same (user, card) have completed, in any
\* interleaving of their reads and writes, the stored lapses is the number
\* of calls that rated AGAIN while the card was in REVIEW (on top of the
\* lapses stored before), and the stored row is what applying the two
\* ratings one after the other in some order gives (SpecInterleaved).
C37_NoLostUpdate ==
  AllGraded =>
    \A stored \in selectProgress(card_progress, userId, {GradedCard}) :
      /\ stored.lapses = firstFetched.lapses + Cardinality(lapsingCallers)
      /\ \E first \in Callers, second \in Callers :
           /\ first # second
           /\ \E between \in gradedAlone(firstFetched, first) :
                stored \in gradedAlone(between, second)

\* the store holds at most one progress row per (user, card)
OneRowPerCard ==
  \A r1 \in card_progress, r2 \in card_progress :
    (r1.user_id = r2.user_id /\ r1.card_id = r2.card_id) => r1 = r2

\* caller's insert is applied in this step, with a row of its batch already
\* stored for the same (user, card)
CollidingInsert(caller) ==
  /\ creating[caller].pc = "read"
  /\ creating'[caller].pc # "read"
  /\ \E n \in creating[caller].batch, r \in card_progress :
       n.user_id = r.user_id /\ n.card_id = r.card_id

\* C38: under any interleaving of concurrent ensureProgressForDeck and
\* getDueDecks calls of one user the store never holds more than one
\* progress row per (user, card); a call whose batch insert collides with
\* rows another call inserted stores none of its batch and leaves the
\* stored rows as they are, and ensureProgressForDeck returns the insert's
\* error (SpecLazyCreate).
C38_NoDuplicateProgress ==
  /\ []OneRowPerCard
  /\ [][\A caller \in Callers :
          CollidingInsert(caller)
          => /\ card_progress' = card_progress
             /\ creating[caller].call.op = "ensureProgressForDeck"
                => /\ result'.op = "ensureProgressForDeck"
                   /\ result'.caller = caller
                   /\ result'.data = <<>>
                   /\ result'.error = <<UniqueViolation>>]_vars

\* C38 witness: ensureProgressForDeck returned the unique violation; the
\* rows of its batch are stored as another call inserted them at an earlier
\* instant, with that call's due_at.
C38_Witness ==
  /\ result.op = "ensureProgressForDeck"
  /\ result.error = <<UniqueViolation>>
  /\ Cardinality(result.batch) = 2
  /\ \A n \in result.batch :
       \E r \in card_progress : /\ r.user_id = n.user_id
                                /\ r.card_id = n.card_id
                                /\ r.due_at < n.due_at
  /\ OneRowPerCard

\* C39: with default deck options a successful review never shortens the
\* interval: for every REVIEW record reachable from a lazily created one,
\* every rating among HARD, GOOD, EASY and every fuzz draw, the interval
\* scheduleNextReview returns is at least the interval the record had (Spec).
C39_ReviewNeverShortens ==
  (SuccessfulReviewReturned /\ deckOptions = <<>>)
  => progress.interval_days >= before.interval_days

\* C39 witness: HARD on an interval of 4 days with the lowest fuzz draw: the
\* base 4.8 rounds to 5 and is fuzzed down to 4.25, which rounds to 4.
C39_Witness ==
  /\ SuccessfulReviewReturned
  /\ deckOptions = <<>>
  /\ rating = RATING_HARD
  /\ before.interval_days = 4
  /\ baseInterval = 5
  /\ rand = 0
  /\ progress.interval_days = 4
====
